---- MODULE Spec2Model ----
(***************************************************************************)
(* ADGMaker: SamplePackProcessor (batch orchestration, cancellation) and   *)
(* ADGMaker (fragment accumulation, container write) as a state machine.   *)
(*                                                                         *)
(* Strings are sequences of one-character strings; a filesystem path is    *)
(* the sequence of its segments (its split on path.sep), the first segment *)
(* of an absolute path being the empty string.                             *)
(***************************************************************************)
EXTENDS Integers, Sequences, FiniteSets, TLC

(***************************************************************************)
(* Bounds of the model.                                                    *)
(***************************************************************************)
\* number of matching files in the largest sample directory
MaxSamples == 105
\* longest list of folders handed to one run
MaxFolders == 2
\* I/O faults the environment injects into container writes in one run
MaxFaults == 1
\* options of a run that differ from the defaults (wav, no debug, no loop
\* folders, no custom names, both templates present)
MaxDeviations == 1
\* generate requests the renderer sends in one behaviour
MaxRuns == 2
\* addSampleFileToInstrument calls between two emptyAdgs calls
MaxCalls == 3
\* length of the strings handed to encodeUtf16Hex
MaxLen == 2
\* directory segments of the paths handed to createPathHint
MaxDepth == 2
\* samples of a container document handed to createAdg directly
MaxItems == 2

(***************************************************************************)
(* Strings.                                                                *)
(***************************************************************************)
\* null / undefined of an optional string
Null == <<"null">>

\* String.prototype.toLowerCase on one UTF-16 code unit (letters of the model)
LowerChar(c) ==
  CASE c = "A" -> "a" [] c = "B" -> "b" [] c = "C" -> "c" [] c = "D" -> "d"
    [] c = "E" -> "e" [] c = "F" -> "f" [] c = "G" -> "g" [] c = "H" -> "h"
    [] c = "I" -> "i" [] c = "J" -> "j" [] c = "K" -> "k" [] c = "L" -> "l"
    [] c = "M" -> "m" [] c = "N" -> "n" [] c = "O" -> "o" [] c = "P" -> "p"
    [] c = "Q" -> "q" [] c = "R" -> "r" [] c = "S" -> "s" [] c = "T" -> "t"
    [] c = "U" -> "u" [] c = "V" -> "v" [] c = "W" -> "w" [] c = "X" -> "x"
    [] c = "Y" -> "y" [] c = "Z" -> "z" [] OTHER -> c

ToLowerCase(s) == [k \in 1..Len(s) |-> LowerChar(s[k])]

\* String.prototype.endsWith
EndsWith(s, suffix) ==
  /\ Len(suffix) <= Len(s)
  /\ SubSeq(s, Len(s) - Len(suffix) + 1, Len(s)) = suffix

\* String.prototype.includes
Includes(s, sub) ==
  \E k \in 0..(Len(s) - Len(sub)) : SubSeq(s, k + 1, k + Len(sub)) = sub

\* decimal digits of a natural number (template-literal number formatting)
RECURSIVE Digits(_)
Digits(n) ==
  LET d == <<"0", "1", "2", "3", "4", "5", "6", "7", "8", "9">>[(n % 10) + 1]
  IN  IF n < 10 THEN <<d>> ELSE Append(Digits(n \div 10), d)

Loop == <<"l", "o", "o", "p">>
Dot == <<".">>
NameSep == <<" ", "-", " ">>
Wav == <<"w", "a", "v">>
Mp3 == <<"m", "p", "3">>
\* FileType of core/types.ts (two of its four members)
FileTypes == {Wav, Mp3}

(***************************************************************************)
(* Paths (Node's path module on absolute, normalised paths).               *)
(***************************************************************************)
\* path.join(dirPath, entry.name)
PathJoin(dirPath, entryName) == Append(dirPath, entryName)

\* path.basename
Basename(p) == p[Len(p)]

\* path.dirname
Dirname(p) == SubSeq(p, 1, Len(p) - 1)

\* path.resolve of an absolute normalised path
PathResolve(p) == p

\* path.sep
Sep == <<"/">>

\* the string of an absolute normalised path: the root is "/", any other
\* path is its segments joined by path.sep (the first segment is empty)
RECURSIVE PathString(_)
PathString(p) ==
  IF Len(p) = 1 THEN Sep
  ELSE IF Len(p) = 2 THEN Sep \o p[2]
  ELSE PathString(SubSeq(p, 1, Len(p) - 1)) \o Sep \o p[Len(p)]

\* String.prototype.split(separator) for a one-character separator
RECURSIVE Split(_, _)
Split(s, sep) ==
  IF \A k \in 1..Len(s) : s[k] # sep THEN <<s>>
  ELSE LET k == CHOOSE j \in 1..Len(s) :
                  s[j] = sep /\ \A h \in 1..(j - 1) : s[h] # sep
       IN  <<SubSeq(s, 1, k - 1)>> \o Split(SubSeq(s, k + 1, Len(s)), sep)

\* (mutant) slice(1): the last part is kept
SliceFromSecond(parts) == SubSeq(parts, 2, Len(parts))

\* Array.prototype.slice(1, -1)
SliceInner(parts) == SubSeq(parts, 2, Len(parts) - 1)

\* Array.prototype.join(separator)
RECURSIVE Join(_, _)
Join(parts, sep) ==
  IF Len(parts) = 0 THEN <<>>
  ELSE IF Len(parts) = 1 THEN parts[1]
  ELSE Join(SubSeq(parts, 1, Len(parts) - 1), sep) \o sep \o parts[Len(parts)]

(***************************************************************************)
(* UTF-16 code units and hexadecimal text. A character outside printable   *)
(* ASCII is written by its code point, "U+20AC".                           *)
(***************************************************************************)
\* printable ASCII in code order, from U+0020
Ascii ==
  << " ", "!", "\"", "#", "$", "%", "&", "'", "(", ")", "*", "+",
     ",", "-", ".", "/", "0", "1", "2", "3", "4", "5", "6", "7",
     "8", "9", ":", ";", "<", "=", ">", "?", "@", "A", "B", "C",
     "D", "E", "F", "G", "H", "I", "J", "K", "L", "M", "N", "O",
     "P", "Q", "R", "S", "T", "U", "V", "W", "X", "Y", "Z", "[",
     "\\", "]", "^", "_", "U+0060", "a", "b", "c", "d", "e", "f", "g",
     "h", "i", "j", "k", "l", "m", "n", "o", "p", "q", "r", "s",
     "t", "u", "v", "w", "x", "y", "z", "{", "|", "}", "~" >>

\* the UTF-16 code unit of a character of the model
CodeUnit(c) ==
  CASE c = "U+FEFF" -> 65279
    [] c = "U+20AC" -> 8364
    [] c = "U+00FC" -> 252
    [] c = "\n" -> 10
    [] OTHER -> 31 + (CHOOSE k \in 1..Len(Ascii) : Ascii[k] = c)

\* String.prototype.toUpperCase on one UTF-16 code unit (letters of the model)
UpperChar(c) ==
  IF CodeUnit(c) >= 97 /\ CodeUnit(c) <= 122 THEN Ascii[CodeUnit(c) - 63]
  ELSE c

ToUpperCase(s) == [k \in 1..Len(s) |-> UpperChar(s[k])]

\* Buffer.from(string, 'utf16le'): two bytes per code unit, low byte first
RECURSIVE BufferFromUtf16le(_)
BufferFromUtf16le(s) ==
  IF Len(s) = 0 THEN <<>>
  ELSE BufferFromUtf16le(SubSeq(s, 1, Len(s) - 1))
         \o <<CodeUnit(s[Len(s)]) % 256, CodeUnit(s[Len(s)]) \div 256>>

\* one digit of Buffer.prototype.toString('hex')
HexDigit(n) ==
  <<"0", "1", "2", "3", "4", "5", "6", "7", "8", "9",
    "a", "b", "c", "d", "e", "f">>[n + 1]

\* Buffer.prototype.toString('hex'): two lower-case digits per byte
RECURSIVE BufferToHex(_)
BufferToHex(buffer) ==
  IF Len(buffer) = 0 THEN <<>>
  ELSE BufferToHex(SubSeq(buffer, 1, Len(buffer) - 1))
         \o <<HexDigit(buffer[Len(buffer)] \div 16),
              HexDigit(buffer[Len(buffer)] % 16)>>

(***************************************************************************)
(* UTF-8, as fs.promises.writeFile(..., 'utf-8') writes a string and       *)
(* Buffer.prototype.toString('utf-8') reads one back.                      *)
(***************************************************************************)
\* the concatenation of seqs[lo..hi]
RECURSIVE Flatten(_, _, _)
Flatten(seqs, lo, hi) ==
  IF lo > hi THEN <<>>
  ELSE IF lo = hi THEN seqs[lo]
  ELSE Flatten(seqs, lo, (lo + hi) \div 2)
         \o Flatten(seqs, (lo + hi) \div 2 + 1, hi)

\* (mutant) one byte per code unit, its low eight bits ('latin1')
Latin1Bytes(c) == <<CodeUnit(c) % 256>>

\* the UTF-8 bytes of one code unit of the basic plane; a lone surrogate is
\* written as U+FFFD
Utf8Bytes(c) ==
  LET u == CodeUnit(c)
  IN  IF u < 128 THEN <<u>>
      ELSE IF u < 2048 THEN <<192 + (u \div 64), 128 + (u % 64)>>
      ELSE IF u \in 55296..57343 THEN <<239, 191, 189>>
      ELSE <<224 + (u \div 4096), 128 + ((u \div 64) % 64),
             128 + (u % 64)>>

\* the buffer of the UTF-8 bytes of a string
Utf8Encode(text) ==
  [utf8 |-> Flatten([k \in 1..Len(text) |-> Utf8Bytes(text[k])], 1, Len(text))]

\* the character of a code unit
CharOf(u) ==
  CASE u = 65279 -> "U+FEFF"
    [] u = 65533 -> "U+FFFD"
    [] u = 8364 -> "U+20AC"
    [] u = 252 -> "U+00FC"
    [] u = 10 -> "\n"
    [] u \in 32..126 -> Ascii[u - 31]
    [] OTHER -> "U+FFFD"

\* the character whose encoding starts at byte k
Utf8CharAt(bytes, k) ==
  LET b == bytes[k]
      cont(j) == IF k + j <= Len(bytes) /\ bytes[k + j] \in 128..191
                   THEN bytes[k + j] - 128 ELSE -1
  IN  IF b < 128 THEN CharOf(b)
      ELSE IF b \in 192..223 /\ cont(1) >= 0
        THEN CharOf(((b - 192) * 64) + cont(1))
      ELSE IF b \in 224..239 /\ cont(1) >= 0 /\ cont(2) >= 0
        THEN CharOf(((b - 224) * 4096) + (cont(1) * 64) + cont(2))
      ELSE "U+FFFD"

\* Buffer.prototype.toString('utf-8'): one character per lead byte
Utf8Decode(buffer) ==
  LET bytes == buffer.utf8
      leads == SelectSeq([k \in 1..Len(bytes) |-> k],
                         LAMBDA k : bytes[k] \notin 128..191)
  IN  [j \in 1..Len(leads) |-> Utf8CharAt(bytes, leads[j])]

(***************************************************************************)
(* The filesystem the runs read: a tree of directory entries.              *)
(***************************************************************************)
File(n) == [name |-> n, kind |-> "file"]
Other(n) == [name |-> n, kind |-> "other"]
Dir(n, es) == [name |-> n, kind |-> "dir", readable |-> TRUE, entries |-> es]
LockedDir(n) == [name |-> n, kind |-> "dir", readable |-> FALSE, entries |-> <<>>]

\* s1.wav .. sN.wav
NumberedFiles(n) == [k \in 1..n |-> File(<<"s">> \o Digits(k) \o Dot \o Wav)]

KitDir ==
  Dir(<<"K", "i", "t">>,
      << Dir(<<"K", "i", "c", "k", "s">>,
             << File(<<"k", "1", ".", "w", "a", "v">>),
                File(<<"n", "o", "t", "e", ".", "t", "x", "t">>),
                Other(<<"l", "n", ".", "w", "a", "v">>),
                Dir(<<"D", "e", "e", "p">>,
                    << File(<<"K", "2", ".", "W", "A", "V">>) >>),
                File(<<"k", "3", ".", "m", "p", "3">>) >>),
         Dir(<<"D", "r", "u", "m", "L", "o", "o", "p", "s">>,
             << File(<<"l", "1", ".", "w", "a", "v">>) >>),
         Dir(<<"E", "m", "p", "t", "y">>,
             << File(<<"r", ".", "t", "x", "t">>) >>),
         File(<<"t", "o", "p", ".", "w", "a", "v">>),
         Dir(<<"S", "n", "a", "r", "e", "s">>,
             << File(<<"s", "n", ".", "w", "a", "v">>) >>) >>)

FlatDir ==
  Dir(<<"F", "l", "a", "t">>,
      << File(<<"a", ".", "w", "a", "v">>),
         Dir(<<"m", "y", "l", "o", "o", "p", "s">>,
             << File(<<"x", ".", "w", "a", "v">>) >>),
         File(<<"b", ".", "W", "a", "v">>) >>)

VoidDir ==
  Dir(<<"V", "o", "i", "d">>,
      << File(<<"r", ".", "t", "x", "t">>),
         File(<<"w", "a", "v">>) >>)

BrokenDir ==
  Dir(<<"B", "r", "o", "k", "e", "n">>,
      << Dir(<<"G", "o", "o", "d">>,
             << File(<<"g", ".", "w", "a", "v">>) >>),
         LockedDir(<<"L", "o", "c", "k", "e", "d">>) >>)

BigDir ==
  Dir(<<"B", "i", "g">>,
      << Dir(<<"F", "u", "l", "l">>, NumberedFiles(104)),
         Dir(<<"O", "v", "e", "r">>, NumberedFiles(MaxSamples)) >>)

\* a second folder with base name Flat, in another parent directory
AltDir ==
  Dir(<<"A", "l", "t">>,
      << Dir(<<"F", "l", "a", "t">>,
             << File(<<"c", ".", "w", "a", "v">>) >>) >>)

RootDir == Dir(<<>>, <<KitDir, FlatDir, VoidDir, BrokenDir, BigDir, AltDir>>)

\* the root itself as a folder
RootPath == <<<<>>>>

KitPath == <<<<>>, <<"K", "i", "t">>>>
FlatPath == <<<<>>, <<"F", "l", "a", "t">>>>
VoidPath == <<<<>>, <<"V", "o", "i", "d">>>>
BrokenPath == <<<<>>, <<"B", "r", "o", "k", "e", "n">>>>
BigPath == <<<<>>, <<"B", "i", "g">>>>
AltFlatPath == <<<<>>, <<"A", "l", "t">>, <<"F", "l", "a", "t">>>>
\* a folder that does not exist
MissingPath == <<<<>>, <<"G", "o", "n", "e">>>>

NoEntry == [kind |-> "none"]

\* the entry a path names, NoEntry when there is none
RECURSIVE Resolve(_, _, _)
Resolve(node, p, k) ==
  IF k > Len(p) THEN node
  ELSE IF node.kind # "dir" THEN NoEntry
  ELSE LET hits == {j \in 1..Len(node.entries) : node.entries[j].name = p[k]}
       IN  IF hits = {} THEN NoEntry
           ELSE Resolve(node.entries[CHOOSE j \in hits : TRUE], p, k + 1)

Lookup(p) == Resolve(RootDir, p, 2)

\* fs.promises.readdir(dirPath, {withFileTypes: true}) succeeds
CanReaddir(p) == Lookup(p).kind = "dir" /\ Lookup(p).readable

\* its result, in directory order
Readdir(p) == Lookup(p).entries

(***************************************************************************)
(* SamplePackProcessor: directory and sample discovery.                    *)
(***************************************************************************)
\* (mutant) the name is tested as written
KeepsUnlessLowerLoop(entryName, includeLoops) ==
  includeLoops \/ ~Includes(entryName, Loop)

\* the loop-folder filter of getSubdirsContainingValidSamples
KeepsSubdir(entryName, includeLoops) ==
  includeLoops \/ ~Includes(ToLowerCase(entryName), Loop)

\* getSubdirsContainingValidSamples, given that readdir succeeded
GetSubdirs(dirPath, includeLoops) ==
  LET entries == Readdir(dirPath)
      kept == SelectSeq(entries,
                LAMBDA e : e.kind = "dir" /\ KeepsSubdir(e.name, includeLoops))
  IN  [k \in 1..Len(kept) |-> PathJoin(dirPath, kept[k].name)]

\* the extension test of findSampleFiles.walk
IsSampleEntry(entry, fileType) ==
  entry.kind = "file" /\ EndsWith(ToLowerCase(entry.name), Dot \o fileType)

\* walk: some readdir of the subtree rejects
RECURSIVE WalkFails(_)
WalkFails(node) ==
  \/ node.kind # "dir"
  \/ ~node.readable
  \/ \E k \in 1..Len(node.entries) :
       node.entries[k].kind = "dir" /\ WalkFails(node.entries[k])

\* walk: the files pushed to results for entries lo..hi of a directory,
\* depth first in directory order (the range is halved to keep the
\* evaluation shallow; the result is the left-to-right concatenation)
RECURSIVE WalkNode(_, _, _, _, _)
WalkNode(currentPath, node, lo, hi, fileType) ==
  IF lo > hi THEN <<>>
  ELSE IF lo = hi
    THEN LET entry == node.entries[lo]
             fullPath == PathJoin(currentPath, entry.name)
         IN  IF entry.kind = "dir"
               THEN WalkNode(fullPath, entry, 1, Len(entry.entries), fileType)
             ELSE IF IsSampleEntry(entry, fileType) THEN <<fullPath>>
             ELSE <<>>
  ELSE LET mid == (lo + hi) \div 2
       IN  WalkNode(currentPath, node, lo, mid, fileType)
             \o WalkNode(currentPath, node, mid + 1, hi, fileType)

\* findSampleFiles rejects
FindFails(dirPath) == WalkFails(Lookup(dirPath))

\* findSampleFiles resolves with
FindSampleFiles(dirPath, fileType) ==
  WalkNode(dirPath, Lookup(dirPath), 1, Len(Lookup(dirPath).entries), fileType)

\* (mutant) the slice is missing
NoLimit(samples) == samples

\* samples.slice(0, 104)
LimitSamples(samples) ==
  SubSeq(samples, 1, IF Len(samples) < 104 THEN Len(samples) ELSE 104)

\* (mutant) the emptiness test always passes
AlwaysHasSamples(samples) == TRUE

\* samples.length > 0
HasSamples(samples) == Len(samples) > 0

\* (mutant) the given name is ignored
BasenameOnly(givenName, samplesPath) == Basename(samplesPath)

\* const name = givenName || path.basename(samplesPath)
EffectiveName(givenName, samplesPath) ==
  IF givenName # Null /\ givenName # <<>> THEN givenName
  ELSE Basename(samplesPath)

\* `${name} - ${subdirName}`
SubdirAdgName(name, subdir) == name \o NameSep \o Basename(subdir)

\* (mutant) off by one
NoteValueFrom103(i) == 103 - i

\* note_value = 104 - i
NoteValue(i) == 104 - i

(***************************************************************************)
(* ADGMaker: fragments and the name -> fragments map (insertion ordered).  *)
(***************************************************************************)
\* (mutant) the extension is matched as written
StripExactCase(baseName, fileType) ==
  IF EndsWith(baseName, Dot \o fileType)
    THEN SubSeq(baseName, 1, Len(baseName) - Len(fileType) - 1)
  ELSE baseName

\* baseName.replace(new RegExp(`\\.${fileType}$`, 'i'), '')
StripExtension(baseName, fileType) ==
  IF EndsWith(ToLowerCase(baseName), Dot \o fileType)
    THEN SubSeq(baseName, 1, Len(baseName) - Len(fileType) - 1)
  ELSE baseName

\* `<RelativePathElement Dir="${part}" />`
HintOpen ==
  <<"<", "R", "e", "l", "a", "t", "i", "v", "e", "P", "a", "t",
  "h", "E", "l", "e", "m", "e", "n", "t", " ", "D", "i", "r",
  "=", "\"">>

HintClose == <<"\"", " ", "/", ">">>

RelativePathElement(part) == HintOpen \o part \o HintClose

\* createPathHint on the string of a path
CreatePathHint(filePath) ==
  LET parts == Split(filePath, Sep[1])
      dirParts == SliceInner(parts)
      hintEls == [k \in 1..Len(dirParts) |-> RelativePathElement(dirParts[k])]
  IN  Join(hintEls, <<"\n">>)

\* (mutant) the byte-order mark is left out
EncodeWithoutBom(filePath) ==
  ToUpperCase(BufferToHex(BufferFromUtf16le(filePath)))

\* encodeUtf16Hex on the string of a path
EncodeUtf16Hex(filePath) ==
  LET withBom == <<"U+FEFF">> \o filePath
      buffer == BufferFromUtf16le(withBom)
  IN  ToUpperCase(BufferToHex(buffer))

\* `userfolder:${dirPath}${sep}#${fileName}` of the three parts
AbletonPath(parts) ==
  <<"u", "s", "e", "r", "f", "o", "l", "d", "e", "r", ":">>
    \o PathString(parts.dir) \o Sep \o parts.file

\* createInstrumentXml: the values bound into instrument_xml.tpl; the
\* three parts of `userfolder:${dirPath}${sep}#${fileName}` are kept apart
CreateInstrumentXml(filePath, noteValue, fileType) ==
  LET name == StripExtension(Basename(filePath), fileType)
      fileName == name \o Dot \o fileType
  IN  [path_hint_els |-> CreatePathHint(PathString(filePath)),
       name |-> name,
       sample_file_name |-> fileName,
       note_value |-> noteValue,
       ableton_path |-> [scheme |-> "userfolder:",
                         dir |-> Dirname(filePath),
                         file |-> <<"#">> \o fileName],
       data |-> EncodeUtf16Hex(PathString(filePath))]

\* this.adgs.has(adgName)
AdgsHas(map, adgName) == \E k \in 1..Len(map) : map[k].name = adgName

\* (mutant) an unknown name gets the list of the first container
GetOrFirst(map, adgName) ==
  IF AdgsHas(map, adgName)
    THEN map[CHOOSE k \in 1..Len(map) : map[k].name = adgName].items
  ELSE IF Len(map) > 0 THEN map[1].items
  ELSE <<>>

\* this.adgs.get(adgName) || []
AdgsGet(map, adgName) ==
  IF AdgsHas(map, adgName)
    THEN map[CHOOSE k \in 1..Len(map) : map[k].name = adgName].items
  ELSE <<>>

\* (mutant) the fragment is put in front of the list
AddInFront(map, instrumentXml, adgName) ==
  IF AdgsHas(map, adgName)
    THEN [k \in 1..Len(map) |->
            IF map[k].name = adgName
              THEN [map[k] EXCEPT !.items = <<instrumentXml>> \o @]
            ELSE map[k]]
  ELSE Append(map, [name |-> adgName, items |-> <<instrumentXml>>])

\* (mutant) every call makes an entry of its own
AddAsNewEntry(map, instrumentXml, adgName) ==
  Append(map, [name |-> adgName, items |-> <<instrumentXml>>])

\* addSampleFileToInstrument
AddSampleFileToInstrument(map, instrumentXml, adgName) ==
  IF AdgsHas(map, adgName)
    THEN [k \in 1..Len(map) |->
            IF map[k].name = adgName
              THEN [map[k] EXCEPT !.items = Append(@, instrumentXml)]
            ELSE map[k]]
  ELSE Append(map, [name |-> adgName, items |-> <<instrumentXml>>])

\* createBaseXml: base_xml.tpl rendered with the items of the name
CreateBaseXml(map, adgName) == [items |-> AdgsGet(map, adgName)]

\* literal text of the two templates
XmlDeclaration ==
  <<"<", "?", "x", "m", "l", " ", "v", "e", "r", "s", "i", "o", "n", "=",
    "\"", "1", ".", "0", "\"", " ", "e", "n", "c", "o", "d", "i", "n",
    "g", "=", "\"", "U", "T", "F", "-", "8", "\"", "?", ">", "\n">>
AbletonOpen ==
  <<"<", "A", "b", "l", "e", "t", "o", "n", ">", "<", "D", "r", "u", "m",
    "G", "r", "o", "u", "p", "D", "e", "v", "i", "c", "e", ">", "<", "B",
    "r", "a", "n", "c", "h", "P", "r", "e", "s", "e", "t", "s", ">">>
AbletonClose ==
  <<"<", "/", "B", "r", "a", "n", "c", "h", "P", "r", "e", "s", "e", "t",
    "s", ">", "<", "/", "D", "r", "u", "m", "G", "r", "o", "u", "p", "D",
    "e", "v", "i", "c", "e", ">", "<", "/", "A", "b", "l", "e", "t", "o",
    "n", ">">>
DrumBranchOpen ==
  <<"<", "D", "r", "u", "m", "B", "r", "a", "n", "c", "h", "P", "r", "e",
    "s", "e", "t", ">">>
DrumBranchClose ==
  <<"<", "/", "D", "r", "u", "m", "B", "r", "a", "n", "c", "h", "P", "r",
    "e", "s", "e", "t", ">">>
NameOpen ==
  <<"<", "N", "a", "m", "e", " ", "V", "a", "l", "u", "e", "=", "\"">>
NoteOpen ==
  <<"<", "R", "e", "c", "e", "i", "v", "i", "n", "g", "N", "o", "t", "e",
    " ", "V", "a", "l", "u", "e", "=", "\"">>
FileRefOpen ==
  <<"<", "F", "i", "l", "e", "N", "a", "m", "e", " ", "V", "a", "l", "u",
    "e", "=", "\"">>
PathOpen ==
  <<"<", "P", "a", "t", "h", " ", "V", "a", "l", "u", "e", "=", "\"">>
DataOpen ==
  <<"<", "D", "a", "t", "a", ">">>
DataClose ==
  <<"<", "/", "D", "a", "t", "a", ">">>
ValueClose ==
  <<"\"", " ", "/", ">">>

\* instrument_xml.tpl rendered with the context of one sample
RenderInstrumentXml(item) ==
  DrumBranchOpen
    \o NameOpen \o item.name \o ValueClose
    \o NoteOpen \o Digits(item.note_value) \o ValueClose
    \o item.path_hint_els
    \o FileRefOpen \o item.sample_file_name \o ValueClose
    \o PathOpen \o AbletonPath(item.ableton_path) \o ValueClose
    \o DataOpen \o item.data \o DataClose
    \o DrumBranchClose

\* base_xml.tpl rendered with {items}: the string createBaseXml returns
RenderBaseXml(doc) ==
  XmlDeclaration \o AbletonOpen
    \o Flatten([k \in 1..Len(doc.items) |-> RenderInstrumentXml(doc.items[k])],
               1, Len(doc.items))
    \o AbletonClose

\* zlib gzip of a document
Gzip(xml) == [gzip |-> xml]

\* zlib.gunzipSync of a whole gzip stream
Gunzip(compressed) == compressed.gzip

\* path.join(outputDir, `${adgName}.xml`) and `${adgName}.adg`
XmlFile(outputDir, adgName) ==
  PathJoin(outputDir, adgName \o <<".", "x", "m", "l">>)
AdgFile(outputDir, adgName) ==
  PathJoin(outputDir, adgName \o <<".", "a", "d", "g">>)

OutputDir == <<<<>>, <<"o", "u", "t">>>>

(***************************************************************************)
(* State.                                                                  *)
(***************************************************************************)
VARIABLES
  \* SamplePackProcessor / ADGMaker fields
  fileType, debug, cancelled, adgs,
  \* GenerateOptions
  folders, includeLoops, customNames,
  \* position of the run and locals of the three async methods
  pc, mode, atYield, folderIdx, totalCreated, result,
  samplesPath, givenName, name, subdirs, subIdx, processedSubdirs,
  adgName, samples, limited, i, flushIdx, createdCount, count, xml, err,
  \* environment: templates on disk, injected faults, output directory,
  \* events received by the callbacks
  templates, faults, outFiles, events,
  \* history: cancel() calls, log position at each folder start, flush
  \* attempts of the current folder, folders that raised, counts returned
  cancelIssued, cancelDuringRun, logMark, attempts, threw, returned,
  \* history: artifact files opened for writing, with the folder run
  written,
  \* renderer (App.tsx), IPC channels in both directions, and the main
  \* process' module-level processor with the runs of its generate handlers
  isGenerating, requested, toMain, processor, runs, undelivered,
  \* direct calls (as the unit tests make them): the addSampleFileToInstrument
  \* calls since the last emptyAdgs, and the last call of a function with
  \* its arguments and result
  calls, called

processorVars == <<fileType, debug, cancelled, adgs>>
optionVars == <<folders, includeLoops, customNames>>
multiVars == <<folderIdx, totalCreated, result>>
folderVars == <<samplesPath, givenName, name, subdirs, subIdx, processedSubdirs>>
groupVars == <<adgName, samples, limited, i>>
flushVars == <<flushIdx, createdCount, count, xml>>
envVars == <<templates, faults, outFiles, events>>
histVars == <<cancelIssued, cancelDuringRun, logMark, attempts, threw, returned>>

ipcVars == <<isGenerating, requested, toMain, processor, runs, undelivered>>

coreVars == <<processorVars, optionVars, pc, mode, atYield, multiVars,
              folderVars, groupVars, flushVars, err, envVars, histVars,
              written>>

unitVars == <<calls, called>>

vars == <<coreVars, ipcVars, unitVars>>

FolderPaths == {KitPath, FlatPath, VoidPath, BrokenPath, MissingPath}

\* the folder lists of a run: every list of at most MaxFolders different
\* small folders (the renderer adds a folder once), one list with a folder
\* twice, two folders of the same base name, and the large folder alone or
\* after a small one
FolderLists ==
  {fs \in UNION {[1..n -> FolderPaths] : n \in 1..MaxFolders} :
     \A j, k \in 1..Len(fs) : fs[j] = fs[k] => j = k}
    \cup {<<KitPath, KitPath>>, <<FlatPath, AltFlatPath>>, <<BigPath>>,
          <<VoidPath, BigPath>>}

HasBig(fs) == \E k \in 1..Len(fs) : fs[k] = BigPath

\* number of options that differ from the defaults
Deviations(ft, dbg, loops, names, tpl) ==
  (IF ft # Wav THEN 1 ELSE 0) + (IF dbg THEN 1 ELSE 0)
    + (IF loops THEN 1 ELSE 0) + (IF DOMAIN names # {} THEN 1 ELSE 0)
    + (IF tpl # "ok" THEN 1 ELSE 0)

MyName == <<"M", "y">>

\* customNames: absent, or one name for the first folder of the list
CustomNameMaps(fs) ==
  { [f \in {} |-> <<>>], [f \in {fs[1]} |-> MyName], [f \in {fs[1]} |-> <<>>] }

\* options.customNames?.[folder] || null
CustomNameOf(map, folder) ==
  IF folder \in DOMAIN map /\ map[folder] # <<>> THEN map[folder] ELSE Null

(***************************************************************************)
(* Events handed to the callbacks.                                         *)
(***************************************************************************)
\* (mutant) current is the 0-based index
SampleProgressFromZero(cur, tot, file) ==
  [type |-> "progress", of |-> "sample", current |-> cur - 1, total |-> tot,
   currentFile |-> file]

\* {current: i + 1, total: samples.length, currentFile}
SampleProgress(cur, tot, file) ==
  [type |-> "progress", of |-> "sample", current |-> cur, total |-> tot,
   currentFile |-> file]

FolderProgress(cur, tot, folder) ==
  [type |-> "progress", of |-> "folder", current |-> cur, total |-> tot,
   currentFolder |-> folder]

CreatedEvent(n, p) == [type |-> "created", name |-> n, path |-> p]

\* `No ${this.fileType} samples found in ${samplesPath}`
NoSamplesError(ft, p) ==
  [type |-> "error", text |-> "No {fileType} samples found in {samplesPath}",
   fileType |-> ft, path |-> p]

\* `Failed to create ${adgName}: ${err}`
FailedToCreateError(n, e) ==
  [type |-> "error", text |-> "Failed to create {adgName}: {err}",
   name |-> n, err |-> e]

\* `Error processing ${folder}: ${err}`
ErrorProcessingError(f, e) ==
  [type |-> "error", text |-> "Error processing {folder}: {err}",
   path |-> f, err |-> e]

(***************************************************************************)
(* Output directory.                                                       *)
(***************************************************************************)
\* (mutant) a write leaves an existing file of that path alone (flag 'wx')
WriteIfAbsent(files, p, doc, whole) ==
  IF \E f \in files : f.path = p THEN files
  ELSE files \cup {[path |-> p, doc |-> doc, whole |-> whole]}

\* a write replaces the file of that path
WriteOut(files, p, doc, whole) ==
  {f \in files : f.path # p} \cup {[path |-> p, doc |-> doc, whole |-> whole]}

\* (mutant) the unlink leaves the file in place
RemoveNothing(files, p) == files

\* fs.promises.unlink(p)
RemoveOut(files, p) == {f \in files : f.path # p}

ReadOut(files, p) == (CHOOSE f \in files : f.path = p).doc

(***************************************************************************)
(* Init: a freshly constructed processor, no run in flight.                *)
(***************************************************************************)
Init ==
  /\ fileType \in FileTypes
  /\ debug \in BOOLEAN
  /\ cancelled = FALSE
  /\ adgs = <<>>
  /\ folders \in FolderLists
  /\ includeLoops \in BOOLEAN
  /\ customNames \in CustomNameMaps(folders)
  /\ pc = "idle"
  /\ mode = "none"
  /\ atYield = TRUE
  /\ folderIdx = 0
  /\ totalCreated = 0
  /\ result = [status |-> "none", value |-> 0]
  /\ samplesPath = <<>>
  /\ givenName = Null
  /\ name = <<>>
  /\ subdirs = <<>>
  /\ subIdx = 0
  /\ processedSubdirs = 0
  /\ adgName = <<>>
  /\ samples = <<>>
  /\ limited = <<>>
  /\ i = 0
  /\ flushIdx = 0
  /\ createdCount = 0
  /\ count = 0
  /\ xml = [items |-> <<>>]
  /\ err = "none"
  /\ templates \in {"ok", "noInstrument", "noBase"}
  /\ faults = 0
  /\ outFiles = {}
  /\ events = <<>>
  /\ cancelIssued = FALSE
  /\ cancelDuringRun = FALSE
  /\ logMark = <<>>
  /\ attempts = <<>>
  /\ threw = {}
  /\ returned = <<>>
  /\ written = <<>>
  /\ isGenerating = FALSE
  /\ requested = 0
  /\ toMain = <<>>
  /\ processor = 0
  /\ runs = <<>>
  /\ undelivered = 0
  /\ calls = <<>>
  /\ called = [op |-> "none"]
  /\ Deviations(fileType, debug, includeLoops, customNames, templates)
       <= MaxDeviations
  /\ HasBig(folders) =>
       Deviations(fileType, debug, includeLoops, customNames, templates) = 0

(***************************************************************************)
(* Control calls.                                                          *)
(***************************************************************************)
RunInFlight == pc \notin {"idle", "done", "stuck"}

\* cancel(): from a callback or while an I/O operation is awaited
Cancel ==
  /\ atYield
  /\ ~cancelled
  /\ cancelled' = TRUE
  /\ cancelIssued' = TRUE
  /\ cancelDuringRun' = (cancelDuringRun \/ RunInFlight)
  /\ UNCHANGED <<ipcVars, unitVars, written,
                 fileType, debug, adgs, optionVars, pc, mode, atYield,
                 multiVars, folderVars, groupVars, flushVars, err, envVars,
                 logMark, attempts, threw, returned>>

\* reset(): between runs
Reset ==
  /\ pc = "idle"
  /\ cancelled
  /\ cancelled' = FALSE
  /\ cancelIssued' = FALSE
  /\ UNCHANGED <<ipcVars, unitVars, written,
                 fileType, debug, adgs, optionVars, pc, mode, atYield,
                 multiVars, folderVars, groupVars, flushVars, err, envVars,
                 cancelDuringRun, logMark, attempts, threw, returned>>

(***************************************************************************)
(* processMultipleFolders.                                                 *)
(***************************************************************************)
\* (mutant) processMultipleFolders clears the flag on entry
ClearOnEntry(c) == FALSE

\* the flag as processMultipleFolders finds and leaves it on entry
FlagOnEntry(c) == c

\* let totalCreated = 0, up to the head of the folder loop
StartMulti ==
  /\ pc = "idle"
  /\ mode' = "multi"
  /\ cancelled' = FlagOnEntry(cancelled)
  /\ totalCreated' = 0
  /\ folderIdx' = 1
  /\ pc' = "folderLoop"
  /\ atYield' = FALSE
  /\ UNCHANGED <<ipcVars, unitVars, written,
                 fileType, debug, adgs, optionVars, result, folderVars,
                 groupVars, flushVars, err, envVars, histVars>>

\* (mutant) the folder loop does not look at the flag
NeverStop(c) == FALSE

\* if (this.cancelled) break
StopFolders(c) == c

\* head of `for (const folder of options.folders)`
FolderLoop ==
  /\ pc = "folderLoop"
  /\ IF folderIdx > Len(folders) \/ StopFolders(cancelled)
       THEN /\ pc' = "done"
            /\ result' = [status |-> "resolved", value |-> totalCreated]
            /\ atYield' = TRUE
            /\ UNCHANGED <<samplesPath, givenName>>
       ELSE /\ samplesPath' = folders[folderIdx]
            /\ givenName' = CustomNameOf(customNames, folders[folderIdx])
            /\ pc' = "createStart"
            /\ atYield' = FALSE
            /\ UNCHANGED result
  /\ UNCHANGED <<ipcVars, unitVars, written,
                 processorVars, optionVars, mode, folderIdx, totalCreated,
                 name, subdirs, subIdx, processedSubdirs, groupVars, flushVars,
                 err, envVars, histVars>>

\* (mutant) = instead of +=
OverwriteCount(total, n) == n

\* totalCreated += count
AddCount(total, n) == total + n

\* createAdgFromSamplesPath has resolved with count
CreateReturn ==
  /\ pc = "createReturn"
  /\ returned' = Append(returned, [folder |-> folderIdx, count |-> count])
  /\ IF mode = "single"
       THEN /\ pc' = "done"
            /\ result' = [status |-> "resolved", value |-> count]
            /\ atYield' = TRUE
            /\ UNCHANGED <<folderIdx, totalCreated>>
       ELSE /\ totalCreated' = AddCount(totalCreated, count)
            /\ folderIdx' = folderIdx + 1
            /\ pc' = "folderLoop"
            /\ atYield' = FALSE
            /\ UNCHANGED result
  /\ UNCHANGED <<ipcVars, unitVars, written,
                 processorVars, optionVars, mode, folderVars, groupVars,
                 flushVars, err, envVars, cancelIssued, cancelDuringRun,
                 logMark, attempts, threw>>

\* (mutant) the catch block leaves the folder loop
LeaveFolderLoop(k, n) == n + 1

\* the catch block of the folder loop falls through to the next folder
NextFolderAfterCatch(k, n) == k + 1

\* createAdgFromSamplesPath has rejected with err
FolderThrow ==
  /\ pc = "folderThrow"
  /\ IF mode = "single"
       THEN /\ pc' = "done"
            /\ result' = [status |-> "rejected", value |-> 0]
            /\ UNCHANGED <<folderIdx, events>>
       ELSE /\ events' = Append(events, ErrorProcessingError(folders[folderIdx], err))
            /\ folderIdx' = NextFolderAfterCatch(folderIdx, Len(folders))
            /\ pc' = "folderLoop"
            /\ UNCHANGED result
  /\ atYield' = TRUE
  /\ UNCHANGED <<ipcVars, unitVars, written,
                 processorVars, optionVars, mode, totalCreated, folderVars,
                 groupVars, flushVars, err, templates, faults, outFiles,
                 histVars>>

(***************************************************************************)
(* createAdgFromSamplesPath: scanning and assignment.                      *)
(***************************************************************************)
\* a direct call for the one folder of the options, with the name the
\* caller has for it (null, empty or not)
StartSingle ==
  /\ pc = "idle"
  /\ Len(folders) = 1
  /\ mode' = "single"
  /\ folderIdx' = 1
  /\ samplesPath' = folders[1]
  /\ givenName' = IF folders[1] \in DOMAIN customNames
                    THEN customNames[folders[1]] ELSE Null
  /\ pc' = "createStart"
  /\ atYield' = FALSE
  /\ UNCHANGED <<ipcVars, unitVars, written,
                 processorVars, optionVars, totalCreated, result, name,
                 subdirs, subIdx, processedSubdirs, groupVars, flushVars, err,
                 envVars, histVars>>

\* (mutant) emptyAdgs leaves the map as it is
KeepAdgs(map) == map

\* emptyAdgs: this.adgs.clear()
EmptyAdgs(map) == <<>>

\* emptyAdgs(); this.cancelled = false; name; up to the await of readdir
CreateStart ==
  /\ pc = "createStart"
  /\ adgs' = EmptyAdgs(adgs)
  /\ cancelled' = FALSE
  /\ name' = EffectiveName(givenName, samplesPath)
  /\ pc' = "readdir"
  /\ atYield' = TRUE
  /\ logMark' = Append(logMark, Len(events))
  /\ attempts' = <<>>
  /\ UNCHANGED <<ipcVars, unitVars, written,
                 fileType, debug, optionVars, mode, multiVars, samplesPath,
                 givenName, subdirs, subIdx, processedSubdirs, groupVars,
                 flushVars, err, envVars, cancelIssued, cancelDuringRun, threw,
                 returned>>

\* an exception leaves createAdgFromSamplesPath
Raise(e) ==
  /\ err' = e
  /\ pc' = "folderThrow"
  /\ atYield' = FALSE
  /\ threw' = threw \cup {[folder |-> folderIdx, err |-> e]}

\* getSubdirsContainingValidSamples settles; branch on subdirs.length
ListSubdirs ==
  /\ pc = "readdir"
  /\ IF ~CanReaddir(samplesPath)
       THEN /\ Raise("ENOENT")
            /\ UNCHANGED <<subdirs, subIdx, processedSubdirs>>
       ELSE /\ subdirs' = GetSubdirs(samplesPath, includeLoops)
            /\ IF Len(subdirs') = 0
                 THEN /\ pc' = "scanFlat"
                      /\ atYield' = TRUE
                      /\ UNCHANGED <<subIdx, processedSubdirs>>
                 ELSE /\ subIdx' = 1
                      /\ processedSubdirs' = 0
                      /\ pc' = "subdirLoop"
                      /\ atYield' = FALSE
            /\ UNCHANGED <<err, threw>>
  /\ UNCHANGED <<ipcVars, unitVars, written,
                 processorVars, optionVars, mode, multiVars, samplesPath,
                 givenName, name, groupVars, flushVars, envVars, cancelIssued,
                 cancelDuringRun, logMark, attempts, returned>>

\* flat folder: findSampleFiles settles
ScanFlat ==
  /\ pc = "scanFlat"
  /\ IF FindFails(samplesPath)
       THEN /\ Raise("EACCES")
            /\ UNCHANGED <<groupVars, count, events>>
       ELSE /\ samples' = FindSampleFiles(samplesPath, fileType)
            /\ IF HasSamples(samples')
                 THEN /\ limited' = LimitSamples(samples')
                      /\ adgName' = name
                      /\ i' = 0
                      /\ pc' = "sampleLoop"
                      /\ atYield' = FALSE
                      /\ UNCHANGED <<count, events>>
                 ELSE /\ events' = Append(events, NoSamplesError(fileType, samplesPath))
                      /\ count' = 0
                      /\ pc' = "createReturn"
                      /\ atYield' = TRUE
                      /\ UNCHANGED <<limited, adgName, i>>
            /\ UNCHANGED <<err, threw>>
  /\ UNCHANGED <<ipcVars, unitVars, written,
                 processorVars, optionVars, mode, multiVars, folderVars,
                 flushIdx, createdCount, xml, templates, faults, outFiles,
                 cancelIssued, cancelDuringRun, logMark, attempts, returned>>

\* (mutant) the loop over the subdirectories ends after the first one
GroupsDoneEarly(k, n) == k > 1

\* `for (const subdir of subdirs)` has run out of subdirectories
GroupsDone(k, n) == k > n

\* head of `for (const subdir of subdirs)`, up to the await of findSampleFiles
SubdirLoop ==
  /\ pc = "subdirLoop"
  /\ IF GroupsDone(subIdx, Len(subdirs)) \/ cancelled
       THEN /\ pc' = "flushLoop"
            /\ flushIdx' = 1
            /\ createdCount' = 0
            /\ atYield' = FALSE
            /\ UNCHANGED adgName
       ELSE /\ adgName' = SubdirAdgName(name, subdirs[subIdx])
            /\ pc' = "scanSub"
            /\ atYield' = TRUE
            /\ UNCHANGED <<flushIdx, createdCount>>
  /\ UNCHANGED <<ipcVars, unitVars, written,
                 processorVars, optionVars, mode, multiVars, folderVars,
                 samples, limited, i, count, xml, err, envVars, histVars>>

\* (mutant) a subdirectory without samples ends the folder run
ReturnAtEmptyGroup == "createReturn"

\* a subdirectory without samples falls through to processedSubdirs++
AfterEmptyGroup == "subdirProgress"

\* subdirectory: findSampleFiles settles
ScanSub ==
  /\ pc = "scanSub"
  /\ IF FindFails(subdirs[subIdx])
       THEN /\ Raise("EACCES")
            /\ UNCHANGED <<samples, limited, i>>
       ELSE /\ samples' = FindSampleFiles(subdirs[subIdx], fileType)
            /\ limited' = LimitSamples(samples')
            /\ IF HasSamples(limited')
                 THEN i' = 0 /\ pc' = "sampleLoop"
                 ELSE i' = i /\ pc' = AfterEmptyGroup
            /\ atYield' = FALSE
            /\ UNCHANGED <<err, threw>>
  /\ UNCHANGED <<ipcVars, unitVars, written,
                 processorVars, optionVars, mode, multiVars, folderVars,
                 adgName, flushVars, envVars, cancelIssued, cancelDuringRun,
                 logMark, attempts, returned>>

\* (mutant) the sample loop does not look at the flag
NeverStopSamples(c) == FALSE

\* if (this.cancelled) break, in processSamplesForAdg
StopSamples(c) == c

\* (mutant) the loop takes the samples from the end
SampleFromEnd(list, k) == list[Len(list) - k]

\* const sampleFile = samples[i]
SampleAt(list, k) == list[k + 1]

\* processSamplesForAdg: one turn of the loop, up to the progress callback
SampleLoop ==
  /\ pc = "sampleLoop"
  /\ IF i >= Len(limited) \/ StopSamples(cancelled)
       THEN /\ pc' = "samplesDone"
            /\ atYield' = TRUE
            /\ UNCHANGED <<adgs, i, events, err, threw>>
       ELSE IF templates = "noInstrument"
         THEN /\ Raise("render")
              /\ UNCHANGED <<adgs, i, events>>
       ELSE /\ adgs' = AddSampleFileToInstrument(adgs,
                         CreateInstrumentXml(PathResolve(SampleAt(limited, i)),
                                             NoteValue(i), fileType),
                         adgName)
            /\ events' = Append(events,
                           SampleProgress(i + 1, Len(limited),
                                          Basename(SampleAt(limited, i))))
            /\ i' = i + 1
            /\ pc' = "sampleLoop"
            /\ atYield' = TRUE
            /\ UNCHANGED <<err, threw>>
  /\ UNCHANGED <<ipcVars, unitVars, written,
                 fileType, debug, cancelled, optionVars, mode, multiVars,
                 folderVars, adgName, samples, limited, flushVars, templates,
                 faults, outFiles, cancelIssued, cancelDuringRun, logMark,
                 attempts, returned>>

\* processSamplesForAdg has resolved
SamplesDone ==
  /\ pc = "samplesDone"
  /\ IF Len(subdirs) = 0
       THEN /\ pc' = "flushLoop"
            /\ flushIdx' = 1
            /\ createdCount' = 0
       ELSE /\ pc' = "subdirProgress"
            /\ UNCHANGED <<flushIdx, createdCount>>
  /\ atYield' = FALSE
  /\ UNCHANGED <<ipcVars, unitVars, written,
                 processorVars, optionVars, mode, multiVars, folderVars,
                 groupVars, count, xml, err, envVars, histVars>>

\* for (const subdir of subdirs): the next subdirectory
NextSubdir(k) == k + 1

\* processedSubdirs++ and the folder progress callback
SubdirProgress ==
  /\ pc = "subdirProgress"
  /\ processedSubdirs' = processedSubdirs + 1
  /\ events' = Append(events,
                 FolderProgress(processedSubdirs', Len(subdirs),
                                Basename(subdirs[subIdx])))
  /\ subIdx' = NextSubdir(subIdx)
  /\ pc' = "subdirLoop"
  /\ atYield' = TRUE
  /\ UNCHANGED <<ipcVars, unitVars, written,
                 processorVars, optionVars, mode, multiVars, samplesPath,
                 givenName, name, subdirs, groupVars, flushVars, err,
                 templates, faults, outFiles, histVars>>

(***************************************************************************)
(* createAdgFromSamplesPath: flushing the accumulated containers, and      *)
(* ADGMaker.createAdg stage by stage.                                      *)
(***************************************************************************)
FlushName == adgs[flushIdx].name

Attempt(outcome) == Append(attempts, [name |-> FlushName, outcome |-> outcome])

\* (mutant) the flush loop does not look at the flag
NeverStopFlush(c) == FALSE

\* if (this.cancelled) break, in the flush loop
StopFlush(c) == c

\* head of `for (const [adgName, _instruments] of allAdgs)`, createBaseXml,
\* up to the await of writeFile
FlushLoop ==
  /\ pc = "flushLoop"
  /\ IF flushIdx > Len(adgs) \/ StopFlush(cancelled)
       THEN /\ count' = createdCount
            /\ pc' = "createReturn"
            /\ atYield' = TRUE
            /\ UNCHANGED <<xml, err, attempts>>
       ELSE IF templates = "noBase"
         THEN /\ err' = "render"
              /\ attempts' = Attempt("render")
              /\ pc' = "flushCatch"
              /\ atYield' = FALSE
              /\ UNCHANGED <<xml, count>>
       ELSE /\ xml' = CreateBaseXml(adgs, FlushName)
            /\ pc' = "writeFile"
            /\ atYield' = TRUE
            /\ UNCHANGED <<count, err, attempts>>
  /\ UNCHANGED <<ipcVars, unitVars, written,
                 processorVars, optionVars, mode, multiVars, folderVars,
                 groupVars, flushIdx, createdCount, envVars, cancelIssued,
                 cancelDuringRun, logMark, threw, returned>>

\* (mutant) the flush loop has no try block: the rejection leaves the method
RejectUncaught(e, outcome) ==
  /\ faults < MaxFaults
  /\ faults' = faults + 1
  /\ err' = e
  /\ attempts' = Attempt(outcome)
  /\ pc' = "folderThrow"
  /\ atYield' = FALSE

\* createAdg rejects with e after an injected fault
Reject(e, outcome) ==
  /\ faults < MaxFaults
  /\ faults' = faults + 1
  /\ err' = e
  /\ attempts' = Attempt(outcome)
  /\ pc' = "flushCatch"
  /\ atYield' = FALSE

\* await fs.promises.writeFile(xmlName, xml, 'utf-8')
WriteXml ==
  /\ pc = "writeFile"
  /\ \/ /\ outFiles' = WriteOut(outFiles, XmlFile(OutputDir, FlushName), xml, TRUE)
        /\ pc' = "gzip"
        /\ atYield' = TRUE
        /\ UNCHANGED <<faults, err, attempts>>
     \/ /\ Reject("EIO", "writeFile")
        /\ UNCHANGED outFiles
  /\ UNCHANGED <<ipcVars, unitVars, written,
                 processorVars, optionVars, mode, multiVars, folderVars,
                 groupVars, flushVars, templates, events, cancelIssued,
                 cancelDuringRun, logMark, threw, returned>>

\* readStream.pipe(gzipStream).pipe(writeStream): 'finish' resolves, 'error'
\* of the write stream rejects, 'error' of the read stream has no listener
GzipXml ==
  /\ pc = "gzip"
  /\ \/ /\ outFiles' = WriteOut(outFiles, AdgFile(OutputDir, FlushName),
                         Gzip(ReadOut(outFiles, XmlFile(OutputDir, FlushName))),
                         TRUE)
        /\ pc' = IF debug THEN "created" ELSE "unlink"
        /\ atYield' = TRUE
        /\ UNCHANGED <<faults, err, attempts>>
     \/ /\ Reject("ENOSPC", "writeStream")
        /\ outFiles' = WriteOut(outFiles, AdgFile(OutputDir, FlushName),
                         Gzip(xml), FALSE)
     \/ /\ faults < MaxFaults
        /\ faults' = faults + 1
        /\ attempts' = Attempt("readStream")
        /\ outFiles' = WriteOut(outFiles, AdgFile(OutputDir, FlushName),
                         Gzip(xml), FALSE)
        /\ pc' = "stuck"
        /\ atYield' = TRUE
        /\ UNCHANGED err
  /\ written' = Append(written, [run |-> Len(logMark), name |-> FlushName])
  /\ UNCHANGED <<ipcVars, unitVars,
                 processorVars, optionVars, mode, multiVars, folderVars,
                 groupVars, flushVars, templates, events, cancelIssued,
                 cancelDuringRun, logMark, threw, returned>>

\* if (!this.debug) await fs.promises.unlink(xmlName)
UnlinkXml ==
  /\ pc = "unlink"
  /\ \/ /\ outFiles' = RemoveOut(outFiles, XmlFile(OutputDir, FlushName))
        /\ pc' = "created"
        /\ atYield' = TRUE
        /\ UNCHANGED <<faults, err, attempts>>
     \/ /\ Reject("EPERM", "unlink")
        /\ UNCHANGED outFiles
  /\ UNCHANGED <<ipcVars, unitVars, written,
                 processorVars, optionVars, mode, multiVars, folderVars,
                 groupVars, flushVars, templates, events, cancelIssued,
                 cancelDuringRun, logMark, threw, returned>>

\* the flush loop moves on to the next accumulated container
NextFlush(k, n) == k + 1

\* createAdg resolved: createdCount++ and the created callback
Created ==
  /\ pc = "created"
  /\ createdCount' = createdCount + 1
  /\ events' = Append(events,
                 CreatedEvent(FlushName, AdgFile(OutputDir, FlushName)))
  /\ attempts' = Attempt("ok")
  /\ flushIdx' = NextFlush(flushIdx, Len(adgs))
  /\ pc' = "flushLoop"
  /\ atYield' = TRUE
  /\ UNCHANGED <<ipcVars, unitVars, written,
                 processorVars, optionVars, mode, multiVars, folderVars,
                 groupVars, count, xml, err, templates, faults, outFiles,
                 cancelIssued, cancelDuringRun, logMark, threw, returned>>

\* (mutant) the catch block leaves the flush loop
LeaveFlushLoop(k, n) == n + 1

\* the catch block of the flush loop falls through to the next container
NextFlushAfterCatch(k, n) == k + 1

\* catch (err): the error callback
FlushCatch ==
  /\ pc = "flushCatch"
  /\ events' = Append(events, FailedToCreateError(FlushName, err))
  /\ flushIdx' = NextFlushAfterCatch(flushIdx, Len(adgs))
  /\ pc' = "flushLoop"
  /\ atYield' = TRUE
  /\ UNCHANGED <<ipcVars, unitVars, written,
                 processorVars, optionVars, mode, multiVars, folderVars,
                 groupVars, createdCount, count, xml, err, templates, faults,
                 outFiles, histVars>>

Next ==
  \/ Cancel
  \/ Reset
  \/ StartMulti
  \/ FolderLoop
  \/ CreateReturn
  \/ FolderThrow
  \/ StartSingle
  \/ CreateStart
  \/ ListSubdirs
  \/ ScanFlat
  \/ SubdirLoop
  \/ ScanSub
  \/ SampleLoop
  \/ SamplesDone
  \/ SubdirProgress
  \/ FlushLoop
  \/ WriteXml
  \/ GzipXml
  \/ UnlinkXml
  \/ Created
  \/ FlushCatch

Spec == Init /\ [][Next]_vars

(***************************************************************************)
(* Vocabulary of the properties.                                           *)
(***************************************************************************)
\* events of the k-th folder run started
LogOf(k) ==
  SubSeq(events, logMark[k] + 1,
         IF k < Len(logMark) THEN logMark[k + 1] ELSE Len(events))

\* events of the folder run in progress (or the last one)
FolderLog == IF logMark = <<>> THEN <<>> ELSE LogOf(Len(logMark))

NumCreated(log) ==
  Cardinality({j \in 1..Len(log) : log[j].type = "created"})

CreatedNames(log) ==
  {log[j].name : j \in {j \in 1..Len(log) : log[j].type = "created"}}

ErrorsWith(log, text) ==
  {j \in 1..Len(log) : log[j].type = "error" /\ log[j].text = text}

RECURSIVE SumCounts(_)
SumCounts(rs) ==
  IF rs = <<>> THEN 0 ELSE rs[1].count + SumCounts(Tail(rs))

Flushing ==
  pc \in {"flushLoop", "writeFile", "gzip", "unlink", "created", "flushCatch"}

\* fragment f is the fragment of sample path p
FragmentOf(f, p) ==
  /\ f.ableton_path.dir = Dirname(p)
  /\ f.name = StripExtension(Basename(p), fileType)

\* the group whose assignment has just ended ran to its end
GroupCompleted == pc = "samplesDone" /\ ~cancelled

(***************************************************************************)
(* C1: for a group with s <= 104 discovered samples processed without      *)
(* cancellation, the i-th sample in discovery order (0-based) gets slot    *)
(* 104 - i: the slots are 104, 103, ..., 104-s+1, strictly descending and  *)
(* without repeats, and the container holds exactly s fragments.           *)
(***************************************************************************)
SlotsDescendFrom104 ==
  /\ \A c \in 1..Len(adgs) :
       \A k \in 1..Len(adgs[c].items) :
         /\ adgs[c].items[k].note_value = 104 - (k - 1)
         /\ \A j \in 1..(k - 1) :
              adgs[c].items[j].note_value > adgs[c].items[k].note_value
  /\ (GroupCompleted /\ Len(samples) <= 104) =>
       LET items == AdgsGet(adgs, adgName)
       IN  /\ Len(items) = Len(samples)
           /\ \A k \in 1..Len(items) : FragmentOf(items[k], samples[k])
           /\ {items[k].note_value : k \in 1..Len(items)}
                = (104 - Len(samples) + 1)..104

FullGroupAssigned ==
  /\ GroupCompleted
  /\ Len(samples) = 104
  /\ Len(AdgsGet(adgs, adgName)) = 104
  /\ AdgsGet(adgs, adgName)[104].note_value = 1

(***************************************************************************)
(* C2: no container ever holds more than 104 samples: of a group with      *)
(* s > 104 discovered samples exactly the first 104 in discovery order are *)
(* assigned, and no sample-progress event has current greater than 104.    *)
(***************************************************************************)
AtMost104PerContainer ==
  /\ \A c \in 1..Len(adgs) : Len(adgs[c].items) <= 104
  /\ \A j \in 1..Len(events) :
       (events[j].type = "progress" /\ events[j].of = "sample")
         => (events[j].current <= 104 /\ events[j].total <= 104)
  /\ (GroupCompleted /\ Len(samples) > 104) =>
       LET items == AdgsGet(adgs, adgName)
       IN  /\ Len(items) = 104
           /\ \A k \in 1..104 : FragmentOf(items[k], samples[k])

OversizedGroupCapped ==
  /\ GroupCompleted
  /\ Len(samples) > 104
  /\ Len(AdgsGet(adgs, adgName)) = 104
  /\ events[Len(events)].current = 104

(***************************************************************************)
(* C3: once cancel() has been called while processMultipleFolders is       *)
(* running, no further folder is started, and the flag stays set: the      *)
(* reset at the start of createAdgFromSamplesPath never swallows it.       *)
(***************************************************************************)
NoFolderStartsAfterCancel ==
  [][(cancelDuringRun /\ mode = "multi")
       => (logMark' = logMark /\ cancelled /\ cancelled')]_vars

RunCutShortByCancel ==
  /\ mode = "multi"
  /\ cancelDuringRun
  /\ pc = "done"
  /\ Len(folders) = 2
  /\ Len(logMark) = 1
  /\ folderIdx = 2

(***************************************************************************)
(* C4: the count createAdgFromSamplesPath returns is the number of created *)
(* events it emitted, processMultipleFolders returns the sum of the        *)
(* per-folder counts, and a container is counted only once its write has   *)
(* completed, also when the run is cancelled.                              *)
(***************************************************************************)
CountIsCreatedEvents ==
  /\ Flushing => createdCount = NumCreated(FolderLog)
  /\ pc = "createReturn" => count = NumCreated(FolderLog)
  /\ mode = "multi" =>
       /\ totalCreated = SumCounts(returned)
       /\ pc \in {"folderLoop", "done"} => totalCreated = NumCreated(events)
  /\ (pc = "done" /\ result.status = "resolved") =>
       /\ result.value = SumCounts(returned)
       /\ result.value = NumCreated(events)
  /\ pc = "created" =>
       /\ \E f \in outFiles :
            /\ f.path = AdgFile(OutputDir, FlushName)
            /\ f.whole
            /\ f.doc = Gzip(CreateBaseXml(adgs, FlushName))

CancelledRunCounted ==
  /\ mode = "multi"
  /\ pc = "done"
  /\ cancelDuringRun
  /\ result.value = 1
  /\ Len(adgs) = 2
  /\ Len(returned) = 1

(***************************************************************************)
(* C5: in processMultipleFolders a folder whose processing raises is       *)
(* reported by exactly one error event carrying that failure, contributes  *)
(* nothing to the total, and the later folders are still processed unless  *)
(* the run is cancelled.                                                   *)
(***************************************************************************)
FolderExceptionIsolated ==
  mode = "multi" =>
    /\ \A t \in threw :
         t.folder < folderIdx =>
           LET log == LogOf(t.folder)
               errs == {j \in 1..Len(log) : log[j].type = "error"}
           IN  /\ Cardinality(errs) = 1
               /\ \A j \in errs :
                    log[j] = ErrorProcessingError(folders[t.folder], t.err)
               /\ NumCreated(log) = 0
               /\ \A r \in 1..Len(returned) : returned[r].folder # t.folder
    /\ totalCreated = SumCounts(returned)
    /\ (pc = "done" /\ ~cancelled) =>
         /\ Len(logMark) = Len(folders)
         /\ Len(returned) + Cardinality(threw) = Len(folders)

FolderAfterFailureProcessed ==
  /\ mode = "multi"
  /\ pc = "done"
  /\ ~cancelled
  /\ Len(folders) = 2
  /\ \E t \in threw : t.folder = 1
  /\ result.value >= 1

(***************************************************************************)
(* C6: during the flush of one folder, a container whose rendering or      *)
(* writing fails gets an error event naming it and is not counted, and     *)
(* every remaining accumulated container is still attempted unless the run *)
(* is cancelled.                                                           *)
(***************************************************************************)
FailureOutcomes == {"render", "writeFile", "writeStream", "unlink"}

\* the a-th flush attempt failed and its catch block has run
FailedAndCaught(a) ==
  /\ attempts[a].outcome \in FailureOutcomes
  /\ ~(a = Len(attempts) /\ pc = "flushCatch")

FlatAndEmpty(p) ==
  /\ CanReaddir(p)
  /\ GetSubdirs(p, includeLoops) = <<>>
  /\ ~FindFails(p)
  /\ FindSampleFiles(p, fileType) = <<>>

NoSamplesReported ==
  /\ (pc = "createReturn" /\ FlatAndEmpty(samplesPath)) =>
       /\ FolderLog = <<[type |-> "error",
                         text |-> "No {fileType} samples found in {samplesPath}",
                         fileType |-> fileType, path |-> samplesPath]>>
       /\ count = 0
       /\ attempts = <<>>
       /\ adgs = <<>>
  /\ (pc = "done" /\ mode = "single" /\ FlatAndEmpty(samplesPath)) =>
       /\ result = [status |-> "resolved", value |-> 0]
       /\ outFiles = {}

EmptyFlatFolderReturned ==
  /\ pc = "createReturn"
  /\ samplesPath = VoidPath
  /\ count = 0
  /\ Len(FolderLog) = 1

(***************************************************************************)
(* C8: in an uncancelled, failure-free folder run the containers written   *)
(* are exactly one '<effective-name> - <subfolder-name>' per qualifying    *)
(* subdirectory that has a matching sample when qualifying subdirectories  *)
(* exist, or exactly one '<effective-name>' for a flat folder with         *)
(* samples; the effective name is the custom name when one is supplied and *)
(* the folder's base name otherwise.                                       *)
(***************************************************************************)
ExpectedContainers(p, given) ==
  LET eff == IF given # Null /\ given # <<>> THEN given ELSE p[Len(p)]
      subs == GetSubdirs(p, includeLoops)
  IN  IF Len(subs) > 0
        THEN {eff \o <<" ", "-", " ">> \o subs[k][Len(subs[k])] :
                k \in {k \in 1..Len(subs) :
                         FindSampleFiles(subs[k], fileType) # <<>>}}
      ELSE IF FindSampleFiles(p, fileType) # <<>> THEN {eff}
      ELSE {}

FailureFree == \A a \in 1..Len(attempts) : attempts[a].outcome = "ok"

ContainersNamedAfterGroups ==
  (pc = "createReturn" /\ ~cancelled /\ FailureFree) =>
    LET expected == ExpectedContainers(samplesPath, givenName)
    IN  /\ CreatedNames(FolderLog) = expected
        /\ NumCreated(FolderLog) = Cardinality(expected)
        /\ count = Cardinality(expected)
        /\ \A n \in expected :
             \E f \in outFiles : f.path = AdgFile(OutputDir, n) /\ f.whole

CustomNamedKitWritten ==
  /\ pc = "createReturn"
  /\ ~cancelled
  /\ FailureFree
  /\ samplesPath = KitPath
  /\ givenName = MyName
  /\ count = 2
  /\ CreatedNames(FolderLog)
       = {MyName \o NameSep \o <<"K", "i", "c", "k", "s">>,
          MyName \o NameSep \o <<"S", "n", "a", "r", "e", "s">>}

(***************************************************************************)
(* C9: in the multi-group branch a group with zero matching samples        *)
(* produces no container and no error event, and processing continues with *)
(* the next group of the listing.                                          *)
(***************************************************************************)
GroupName(k) == name \o NameSep \o Basename(subdirs[k])

GroupIsEmpty(k) == FindSampleFiles(subdirs[k], fileType) = <<>>

EmptyGroupSkippedSilently ==
  (pc = "createReturn" /\ ~cancelled /\ Len(subdirs) > 0
     /\ subdirs = GetSubdirs(samplesPath, includeLoops)) =>
    \A k \in 1..Len(subdirs) :
      /\ GroupIsEmpty(k) =>
           /\ ~AdgsHas(adgs, GroupName(k))
           /\ GroupName(k) \notin CreatedNames(FolderLog)
           /\ \A a \in 1..Len(attempts) : attempts[a].name # GroupName(k)
           /\ \A j \in 1..Len(FolderLog) :
                FolderLog[j].type = "error" =>
                  /\ FolderLog[j].text = "Failed to create {adgName}: {err}"
                  /\ FolderLog[j].name # GroupName(k)
      /\ \E j \in 1..Len(FolderLog) :
           FolderLog[j] = FolderProgress(k, Len(subdirs), Basename(subdirs[k]))
      /\ ~GroupIsEmpty(k) => AdgsHas(adgs, GroupName(k))

GroupAfterEmptyGroupAssigned ==
  /\ pc = "createReturn"
  /\ ~cancelled
  /\ Len(subdirs) = 3
  /\ GroupIsEmpty(2)
  /\ ~GroupIsEmpty(3)
  /\ AdgsHas(adgs, GroupName(3))
  /\ count = 2

(***************************************************************************)
(* C10 as stated: once cancel() has set the flag it stays set until        *)
(* reset() is called; starting a folder run does not clear it.             *)
(***************************************************************************)
CancelPersistsUntilReset == cancelIssued => cancelled

(***************************************************************************)
(* C10 as amended: once cancel() has set the flag, only reset() or the     *)
(* start of a folder run (createAdgFromSamplesPath, which clears the flag  *)
(* on entry) clears it.                                                    *)
(***************************************************************************)
CancelClearedOnlyByResetOrFolderStart ==
  [][(cancelled /\ ~cancelled') => (Reset \/ CreateStart)]_vars

CancelSwallowedByFolderStart ==
  /\ cancelIssued
  /\ ~cancelled
  /\ mode = "single"
  /\ pc = "readdir"

(***************************************************************************)
(* Vocabulary of the properties on folders of one run.                     *)
(***************************************************************************)
\* path p is d or lies below it
IsUnder(p, d) == Len(d) <= Len(p) /\ SubSeq(p, 1, Len(d)) = d

RECURSIVE NumFragments(_)
NumFragments(map) ==
  IF map = <<>> THEN 0 ELSE Len(map[1].items) + NumFragments(Tail(map))

NumSampleEvents(log) ==
  Cardinality({j \in 1..Len(log) :
                 log[j].type = "progress" /\ log[j].of = "sample"})

\* a folder run has started and the map belongs to it
MapOfCurrentFolder == logMark # <<>> /\ pc # "createStart"

(***************************************************************************)
(* C11: the name -> fragments map never holds anything of a previously     *)
(* processed folder: from the start of a folder run on, every fragment in  *)
(* it is of a sample found under that folder, there is one fragment per    *)
(* sample assigned in this folder run, and a container document written    *)
(* for the folder holds fragments of that folder only.                     *)
(***************************************************************************)
NoStateLeaksAcrossFolders ==
  /\ pc = "readdir" => adgs = <<>>
  /\ MapOfCurrentFolder =>
       /\ \A c \in 1..Len(adgs) :
            \A k \in 1..Len(adgs[c].items) :
              IsUnder(adgs[c].items[k].ableton_path.dir, samplesPath)
       /\ NumFragments(adgs) = NumSampleEvents(FolderLog)
  /\ pc \in {"writeFile", "gzip", "unlink", "created"} =>
       \A k \in 1..Len(xml.items) :
         IsUnder(xml.items[k].ableton_path.dir, samplesPath)

FirstSampleOfSecondFolderAssigned ==
  /\ mode = "multi"
  /\ folderIdx = 2
  /\ pc = "sampleLoop"
  /\ i = 1
  /\ NumFragments(adgs) = 1
  /\ Len(returned) = 1
  /\ returned[1].count >= 1

(***************************************************************************)
(* C12 as stated: in one processMultipleFolders run, when two different    *)
(* source folders yield the same container name, the container written for *)
(* the later folder also contains the earlier folder's fragments.          *)
(***************************************************************************)
\* the w-th artifact write was of the name now flushed, for an earlier,
\* different folder of this run
EarlierFolderWroteSameName(w) ==
  /\ mode = "multi"
  /\ pc = "created"
  /\ written[w].run < Len(logMark)
  /\ written[w].name = FlushName
  /\ folders[written[w].run] # samplesPath

CollidingContainersMerge ==
  \A w \in 1..Len(written) :
    EarlierFolderWroteSameName(w) =>
      \E k \in 1..Len(xml.items) :
        IsUnder(xml.items[k].ableton_path.dir, folders[written[w].run])

(***************************************************************************)
(* C12 as amended: in one processMultipleFolders run, when two different   *)
(* source folders yield the same container name, their sample lists are    *)
(* not merged: the container written for the later folder holds the later  *)
(* folder's fragments only, and its artifact file replaces the one written *)
(* for the earlier folder.                                                 *)
(***************************************************************************)
CollidingContainerReplaced ==
  \A w \in 1..Len(written) :
    EarlierFolderWroteSameName(w) =>
      /\ xml.items = AdgsGet(adgs, FlushName)
      /\ Len(xml.items) <= NumSampleEvents(FolderLog)
      /\ \A k \in 1..Len(xml.items) :
           IsUnder(xml.items[k].ableton_path.dir, samplesPath)
      /\ \A f \in outFiles :
           f.path = AdgFile(OutputDir, FlushName) => f.doc = Gzip(xml)

LaterFolderReplacedArtifact ==
  /\ mode = "multi"
  /\ pc = "created"
  /\ samplesPath = AltFlatPath
  /\ \E w \in 1..Len(written) :
       written[w].run = 1 /\ written[w].name = FlushName

(***************************************************************************)
(* C13 as stated: during one processMultipleFolders run the artifact file  *)
(* of any given container name is written at most once.                    *)
(***************************************************************************)
ArtifactWrittenOncePerMultiRun ==
  mode = "multi" =>
    \A v, w \in 1..Len(written) :
      written[v].name = written[w].name => v = w

(***************************************************************************)
(* C13 as amended: during one folder run (one createAdgFromSamplesPath     *)
(* call) the artifact file of any given container name is written at most  *)
(* once; folders of one processMultipleFolders run that yield the same     *)
(* name each write it, once per folder.                                    *)
(***************************************************************************)
ArtifactWrittenOncePerFolderRun ==
  \A v, w \in 1..Len(written) :
    (written[v].name = written[w].name /\ written[v].run = written[w].run)
      => v = w

SameNameWrittenByTwoFolders ==
  /\ mode = "multi"
  /\ pc = "done"
  /\ \E v, w \in 1..Len(written) :
       written[v].name = written[w].name /\ written[v].run < written[w].run

(***************************************************************************)
(* C14: within one folder run no container is written until sample         *)
(* assignment has finished for every group of the folder, and once the     *)
(* first container write has started no sample is added to any container   *)
(* of that run: flushing is never followed by assigning.                   *)
(***************************************************************************)
Assigning ==
  pc \in {"readdir", "scanFlat", "subdirLoop", "scanSub", "sampleLoop",
          "samplesDone", "subdirProgress"}

\* a container of the current folder run has been rendered or written, or
\* is being written
WriteStarted ==
  \/ pc \in {"writeFile", "gzip", "unlink", "created", "flushCatch"}
  \/ attempts # <<>>

\* every group of the folder has been assigned to its end
AssignmentFinished ==
  IF Len(subdirs) = 0 THEN i = Len(limited) ELSE subIdx > Len(subdirs)

FlushOnlyAfterAssignment ==
  /\ [](WriteStarted => (AssignmentFinished /\ ~Assigning))
  /\ [][Flushing => adgs' = adgs]_vars

FirstWriteAfterAllGroups ==
  /\ pc = "writeFile"
  /\ flushIdx = 1
  /\ Len(subdirs) = 3
  /\ Len(adgs) = 2
  /\ attempts = <<>>

(***************************************************************************)
(* Vocabulary of the properties on the order of events: the events a       *)
(* folder yields when it is processed to its end, from the directory tree. *)
(***************************************************************************)
RECURSIVE Concat(_)
Concat(seqs) == IF seqs = <<>> THEN <<>> ELSE seqs[1] \o Concat(Tail(seqs))

IsPrefix(a, b) == Len(a) <= Len(b) /\ a = SubSeq(b, 1, Len(a))

\* the qualifying subdirectories of a folder, none when it cannot be listed
Listing(p) == IF CanReaddir(p) THEN GetSubdirs(p, includeLoops) ELSE <<>>

\* the samples of a group that are assigned, in discovery order (none when
\* the group cannot be read)
Retained(groupPath) ==
  LET found == IF CanReaddir(groupPath)
                 THEN FindSampleFiles(groupPath, fileType) ELSE <<>>
  IN  SubSeq(found, 1, IF Len(found) < 104 THEN Len(found) ELSE 104)

\* the sample-progress events of a group
GroupSampleEvents(groupPath) ==
  LET kept == Retained(groupPath)
  IN  [k \in 1..Len(kept) |->
         [type |-> "progress", of |-> "sample", current |-> k,
          total |-> Len(kept), currentFile |-> kept[k][Len(kept[k])]]]

NameOfFolder(p, given) ==
  IF given # Null /\ given # <<>> THEN given ELSE p[Len(p)]

\* the container names of a folder, in the order of its groups
ExpectedNames(p, given) ==
  LET subs == Listing(p)
      named == [k \in 1..Len(subs) |->
                  IF Retained(subs[k]) = <<>> THEN <<>>
                  ELSE <<NameOfFolder(p, given) \o <<" ", "-", " ">>
                           \o subs[k][Len(subs[k])]>>]
  IN  IF Len(subs) > 0 THEN Concat(named)
      ELSE IF Retained(p) = <<>> THEN <<>>
      ELSE <<NameOfFolder(p, given)>>

ExpectedSampleEvents(p) ==
  LET subs == Listing(p)
  IN  IF Len(subs) > 0
        THEN Concat([k \in 1..Len(subs) |-> GroupSampleEvents(subs[k])])
      ELSE GroupSampleEvents(p)

ExpectedFolderEvents(p) ==
  LET subs == Listing(p)
  IN  [k \in 1..Len(subs) |->
         [type |-> "progress", of |-> "folder", current |-> k,
          total |-> Len(subs), currentFolder |-> subs[k][Len(subs[k])]]]

ExpectedCreated(p, given) ==
  LET names == ExpectedNames(p, given)
  IN  [k \in 1..Len(names) |->
         [type |-> "created", name |-> names[k],
          path |-> Append(OutputDir, names[k] \o <<".", "a", "d", "g">>)]]

\* all events of a folder processed to its end without failure
ExpectedLog(p, given) ==
  LET subs == Listing(p)
  IN  IF Len(subs) > 0
        THEN Concat([k \in 1..Len(subs) |->
                       Append(GroupSampleEvents(subs[k]),
                              ExpectedFolderEvents(p)[k])])
               \o ExpectedCreated(p, given)
      ELSE IF Retained(p) = <<>>
        THEN <<[type |-> "error",
                text |-> "No {fileType} samples found in {samplesPath}",
                fileType |-> fileType, path |-> p]>>
      ELSE GroupSampleEvents(p) \o ExpectedCreated(p, given)

SampleEventsIn(log) ==
  SelectSeq(log, LAMBDA e : e.type = "progress" /\ e.of = "sample")

FolderEventsIn(log) ==
  SelectSeq(log, LAMBDA e : e.type = "progress" /\ e.of = "folder")

\* names of the containers the log reports as created or as failed
FlushedNamesIn(log) ==
  LET fl == SelectSeq(log, LAMBDA e :
              \/ e.type = "created"
              \/ (e.type = "error"
                    /\ e.text = "Failed to create {adgName}: {err}"))
  IN  [k \in 1..Len(fl) |-> fl[k].name]

\* the folder and the name given for the k-th folder run started
FolderOfRun(k) == folders[k]
GivenOfRun(k) == CustomNameOf(customNames, folders[k])

(***************************************************************************)
(* C15: processing is strictly sequential and ordered. Events are only     *)
(* ever appended and folder runs start in the order given; when the k-th   *)
(* folder run ends its events are those of the k-th folder: the sample     *)
(* events follow groups in listing order and samples in discovery order,   *)
(* the folder-progress events follow listing order and the flush events    *)
(* follow the order of the groups (what cancel or failure cuts off is cut  *)
(* off at the end); and a folder run without cancel or failure has emitted *)
(* exactly the events of its folder, each group's samples before its       *)
(* folder-progress event and all of them before the first created event.   *)
(***************************************************************************)
FolderRunEnded == pc \in {"createReturn", "folderThrow", "stuck"}

StrictlySequentialEvents ==
  /\ [][IsPrefix(events, events') /\ IsPrefix(logMark, logMark')]_vars
  /\ [](/\ Len(logMark) <= Len(folders)
        /\ \A k \in 1..Len(logMark) : logMark[k] <= Len(events)
        /\ \A k \in 2..Len(logMark) : logMark[k - 1] <= logMark[k]
        /\ FolderRunEnded => Len(logMark) = folderIdx)
  /\ [](FolderRunEnded =>
          LET k == Len(logMark)
          IN  /\ IsPrefix(SampleEventsIn(LogOf(k)),
                          ExpectedSampleEvents(FolderOfRun(k)))
              /\ IsPrefix(FolderEventsIn(LogOf(k)),
                          ExpectedFolderEvents(FolderOfRun(k)))
              /\ IsPrefix(FlushedNamesIn(LogOf(k)),
                          ExpectedNames(FolderOfRun(k), GivenOfRun(k))))
  /\ []((pc = "createReturn" /\ ~cancelled /\ FailureFree) =>
          LogOf(Len(logMark))
            = ExpectedLog(FolderOfRun(Len(logMark)),
                          GivenOfRun(Len(logMark))))

TwoFoldersInOrder ==
  /\ mode = "multi"
  /\ pc = "done"
  /\ folders = <<FlatPath, KitPath>>
  /\ Len(returned) = 2
  /\ ~cancelDuringRun
  /\ faults = 0
  /\ Len(LogOf(1)) = 4
  /\ Len(LogOf(2)) = 8

(***************************************************************************)
(* C16: once the cancellation flag is set during a folder run, no further  *)
(* sample is added to any container in that run: the group in progress     *)
(* keeps the samples already added, and no scan of a later subdirectory is *)
(* started.                                                                *)
(***************************************************************************)
InFolderRun ==
  Assigning \/ Flushing \/ pc \in {"createReturn", "folderThrow"}

NoSampleAddedAfterCancel ==
  [][(cancelled /\ InFolderRun) => (adgs' = adgs /\ pc' # "scanSub")]_vars

CancelledMidGroup ==
  /\ pc = "createReturn"
  /\ cancelled
  /\ samplesPath = KitPath
  /\ Len(subdirs) = 3
  /\ Len(adgs) = 1
  /\ Len(adgs[1].items) = 1
  /\ Len(limited) = 2
  /\ count = 0

(***************************************************************************)
(* C17: if the cancellation flag is set when a flush checkpoint is         *)
(* reached, that container and all remaining accumulated containers of the *)
(* folder are not written and emit no created event; no container write is *)
(* started while the flag is set, so a cancel issued while one write is in *)
(* flight lets at most that one write complete.                            *)
(***************************************************************************)
FlushStopsAtCancel ==
  /\ [][(cancelled /\ pc = "flushLoop") =>
          /\ pc' = "createReturn"
          /\ count' = createdCount
          /\ UNCHANGED <<events, outFiles, attempts, written>>]_vars
  /\ [][(cancelled /\ pc # "writeFile") => pc' # "writeFile"]_vars
  /\ []((pc = "createReturn" /\ cancelled) =>
          \A k \in (IF flushIdx < 1 THEN 1 ELSE flushIdx)..Len(adgs) :
            /\ adgs[k].name \notin CreatedNames(FolderLog)
            /\ \A a \in 1..Len(attempts) : attempts[a].name # adgs[k].name
            /\ \A w \in 1..Len(written) :
                 written[w].run = Len(logMark)
                   => written[w].name # adgs[k].name)

CancelDuringWriteLetsItComplete ==
  /\ pc = "createReturn"
  /\ cancelled
  /\ Len(adgs) = 2
  /\ flushIdx = 2
  /\ count = 1
  /\ attempts = <<[name |-> adgs[1].name, outcome |-> "ok"]>>

(***************************************************************************)
(* C20: every failure during a processMultipleFolders run - a folder that  *)
(* cannot be listed or scanned, a flat folder without matching samples, a  *)
(* container whose render, write or compression step fails - has an error  *)
(* event by the time the run has ended or can take no further step; no     *)
(* failure is dropped silently.                                            *)
(***************************************************************************)
\* the run has returned, or waits for a promise that never settles
RunAtRest == pc \in {"done", "stuck"}

EveryFailureReported ==
  (mode = "multi" /\ RunAtRest) =>
    /\ \A t \in threw :
         ErrorsWith(LogOf(t.folder), "Error processing {folder}: {err}") # {}
    /\ \A k \in 1..Len(logMark) :
         FlatAndEmpty(folders[k]) =>
           ErrorsWith(LogOf(k),
                      "No {fileType} samples found in {samplesPath}") # {}
    /\ \A a \in 1..Len(attempts) :
         attempts[a].outcome # "ok" =>
           \E j \in ErrorsWith(FolderLog, "Failed to create {adgName}: {err}") :
             FolderLog[j].name = attempts[a].name

(***************************************************************************)
(* C22: once a folder run has flushed its containers and returned, the     *)
(* accumulated name -> fragments map is empty: when createAdgFromSamplesPath*)
(* resolves, the map holds no container.                                   *)
(***************************************************************************)
MapEmptyAfterFolderRun ==
  [][(pc = "createReturn" /\ pc' # "createReturn") => adgs' = <<>>]_vars

(***************************************************************************)
(* C24: for a group with n retained samples processed without cancellation *)
(* exactly n sample-progress events are emitted; the i-th (1-based) has    *)
(* current = i, total = n and currentFile equal to the i-th sample's base  *)
(* filename, and it is emitted after that sample has been added: while a   *)
(* group is assigned, the last i events are the events of its first i      *)
(* samples and the container holds the fragments of those samples.         *)
(***************************************************************************)
\* the sample-progress event of the k-th (1-based) of the samples
ProgressOfSample(list, k) ==
  [type |-> "progress", of |-> "sample", current |-> k, total |-> Len(list),
   currentFile |-> list[k][Len(list[k])]]

\* the last n events of the folder run
LastEvents(n) == SubSeq(FolderLog, Len(FolderLog) - n + 1, Len(FolderLog))

OneProgressEventPerSample ==
  /\ pc \in {"sampleLoop", "samplesDone"} =>
       /\ i <= Len(limited)
       /\ Len(FolderLog) >= i
       /\ LastEvents(i) = [k \in 1..i |-> ProgressOfSample(limited, k)]
       /\ Len(FolderLog) > i =>
            (FolderLog[Len(FolderLog) - i].type = "progress"
               /\ FolderLog[Len(FolderLog) - i].of = "folder")
       /\ Len(AdgsGet(adgs, adgName)) = i
       /\ \A k \in 1..i : FragmentOf(AdgsGet(adgs, adgName)[k], limited[k])
  /\ GroupCompleted => i = Len(limited)

GroupOfTwoReported ==
  /\ GroupCompleted
  /\ Len(subdirs) = 3
  /\ subIdx = 1
  /\ Len(limited) = 2
  /\ SampleEventsIn(FolderLog)
       = <<ProgressOfSample(limited, 1), ProgressOfSample(limited, 2)>>

(***************************************************************************)
(* C25: in the multi-group branch a folder-progress event is emitted only  *)
(* after a group has completed or been skipped: when an event with         *)
(* current = c has been emitted, each of the first c groups in listing     *)
(* order is fully processed (every retained sample has its fragment) or    *)
(* skipped as empty; a folder run that ends without cancel or failure has  *)
(* emitted the events 1..groupCount in listing order; and the flat branch  *)
(* emits none.                                                             *)
(***************************************************************************)
\* the k-th group of the current folder is fully processed, or empty
GroupFullyProcessed(k) ==
  Len(AdgsGet(adgs, SubdirAdgName(name, subdirs[k])))
    = Len(Retained(subdirs[k]))

FolderProgressCountsFinishedGroups ==
  (InFolderRun /\ pc # "readdir") =>
    LET fe == FolderEventsIn(FolderLog)
    IN  /\ Len(subdirs) = 0 => fe = <<>>
        /\ \A j \in 1..Len(fe) :
             /\ fe[j].current = j
             /\ fe[j].total = Len(subdirs)
             /\ fe[j].currentFolder = Basename(subdirs[j])
             /\ \A k \in 1..fe[j].current : GroupFullyProcessed(k)
        /\ (pc = "createReturn" /\ ~cancelled) => Len(fe) = Len(subdirs)

(***************************************************************************)
(* C33: every container artifact that is written holds the complete sample *)
(* list of its group, min(s, 104) fragments for the s matching files       *)
(* discovered for the group, in discovery order; a container that holds    *)
(* only part of its group because of cancellation is never written.        *)
(***************************************************************************)
\* createAdg is under way or has resolved for the container FlushName
Writing == pc \in {"writeFile", "gzip", "unlink", "created"}

\* the directory whose samples make up the container of that name
GroupDirOf(n) ==
  IF Len(subdirs) = 0 THEN samplesPath
  ELSE subdirs[CHOOSE k \in 1..Len(subdirs) : GroupName(k) = n]

\* the fragment list is that of every sample the group retains
HoldsWholeGroup(items, groupPath) ==
  LET found == FindSampleFiles(groupPath, fileType)
  IN  /\ Len(items) = IF Len(found) < 104 THEN Len(found) ELSE 104
      /\ \A k \in 1..Len(items) :
           /\ FragmentOf(items[k], found[k])
           /\ items[k].note_value = 105 - k

IsAdgPath(p) == EndsWith(Basename(p), <<".", "a", "d", "g">>)

WrittenContainersAreComplete ==
  /\ [](Writing => HoldsWholeGroup(xml.items, GroupDirOf(FlushName)))
  /\ [][\A f \in outFiles' \ outFiles :
          IsAdgPath(f.path) =>
            /\ pc = "gzip"
            /\ f.path = AdgFile(OutputDir, FlushName)
            /\ f.doc = [gzip |-> xml]]_vars

WholeGroupWrittenDespiteCancel ==
  /\ pc = "created"
  /\ cancelled
  /\ Len(subdirs) > 1
  /\ Len(xml.items) = 2
  /\ \E f \in outFiles :
       f.path = AdgFile(OutputDir, FlushName) /\ f.whole /\ f.doc.gzip = xml

(***************************************************************************)
(* C34: createAdg always settles. A failure of any stage of the read ->    *)
(* gzip -> write pipeline rejects the promise, so that the flush loop      *)
(* emits an error event for the container and moves on to the next one;    *)
(* the promise never stays pending.                                        *)
(***************************************************************************)
\* the flush loop has taken control back from createAdg
CreateAdgSettled == pc \in {"created", "flushCatch"}

CreateAdgSettles ==
  /\ [][(pc = "gzip" /\ pc' # "gzip") =>
          (pc' = "unlink" \/ CreateAdgSettled')]_vars
  /\ [](\A a \in 1..Len(attempts) :
          attempts[a].outcome # "ok" =>
            \/ a = Len(attempts) /\ pc = "flushCatch"
            \/ /\ flushIdx > a
               /\ \E j \in ErrorsWith(FolderLog,
                                       "Failed to create {adgName}: {err}") :
                    FolderLog[j].name = attempts[a].name)

(***************************************************************************)
(* Direct calls on an ADGMaker, as the unit tests make them: any sequence  *)
(* of addSampleFileToInstrument, emptyAdgs and createBaseXml on one        *)
(* instance whose templates are in place.                                  *)
(***************************************************************************)
\* sample paths and container names handed to the calls
TestFiles ==
  {PathJoin(FlatPath, <<"a", ".", "w", "a", "v">>),
   PathJoin(FlatPath, <<"b", ".", "W", "a", "v">>)}
TestAdg == <<"T", "e", "s", "t", "A", "D", "G">>
OtherAdg == <<"O", "t", "h", "e", "r">>
NonExistent == <<"N", "o", "n", "E", "x", "i", "s", "t", "e", "n", "t">>
TestNames == {TestAdg, OtherAdg}

\* what a direct call leaves alone: the processor's run and the IPC layer
callFrame ==
  <<ipcVars, written, fileType, debug, cancelled, optionVars, pc, mode,
    atYield, multiVars, folderVars, groupVars, flushVars, err, envVars,
    histVars>>

\* adgMaker.addSampleFileToInstrument(filePath, adgName, noteValue)
CallAddSampleFileToInstrument ==
  /\ Len(calls) < MaxCalls
  /\ \E filePath \in TestFiles, n \in TestNames :
       LET noteValue == NoteValue(Len(calls))
       IN  /\ adgs' = AddSampleFileToInstrument(adgs,
                         CreateInstrumentXml(filePath, noteValue, fileType),
                         n)
           /\ calls' = Append(calls, [filePath |-> filePath, adgName |-> n,
                                      noteValue |-> noteValue])
           /\ called' = [op |-> "addSampleFileToInstrument", adgName |-> n]
  /\ UNCHANGED callFrame

\* adgMaker.emptyAdgs()
CallEmptyAdgs ==
  /\ adgs' = EmptyAdgs(adgs)
  /\ calls' = <<>>
  /\ called' = [op |-> "emptyAdgs"]
  /\ UNCHANGED callFrame

\* adgMaker.createBaseXml(adgName)
CallCreateBaseXml ==
  /\ \E n \in TestNames \cup {NonExistent} :
       called' = [op |-> "createBaseXml", adgName |-> n,
                  result |-> CreateBaseXml(adgs, n)]
  /\ UNCHANGED <<adgs, calls, callFrame>>

\* a fresh ADGMaker of either file type, both templates present
MakerInit ==
  /\ Init
  /\ ~debug
  /\ ~includeLoops
  /\ folders = <<KitPath>>
  /\ DOMAIN customNames = {}
  /\ templates = "ok"

MakerNext ==
  \/ CallAddSampleFileToInstrument
  \/ CallEmptyAdgs
  \/ CallCreateBaseXml

MakerSpec == MakerInit /\ [][MakerNext]_vars

(***************************************************************************)
(* Vocabulary of the properties on direct calls.                           *)
(***************************************************************************)
\* the add calls made for a name since the last clear, in call order
CallsFor(n) == SelectSeq(calls, LAMBDA c : c.adgName = n)

\* the fragment an add call has rendered
FragmentOfCall(c) == CreateInstrumentXml(c.filePath, c.noteValue, fileType)

\* one fragment per add call for the name, in call order
FragmentsFor(n) ==
  [k \in 1..Len(CallsFor(n)) |-> FragmentOfCall(CallsFor(n)[k])]

AllNames == TestNames \cup {NonExistent}

(***************************************************************************)
(* C21: after any sequence of addSampleFileToInstrument and emptyAdgs      *)
(* calls, the list stored for a container name holds exactly one fragment  *)
(* per add call made for that name since the last clear, in call order,    *)
(* and createBaseXml for that name embeds exactly those fragments; adding  *)
(* to one name never changes another name's list.                          *)
(***************************************************************************)
ListsFollowAddCalls ==
  /\ [](/\ \A n \in AllNames : AdgsGet(adgs, n) = FragmentsFor(n)
        /\ \A k \in 1..Len(adgs) :
             /\ adgs[k].name \in {calls[j].adgName : j \in 1..Len(calls)}
             /\ \A j \in 1..Len(adgs) : adgs[j].name = adgs[k].name => j = k
        /\ called.op = "createBaseXml" =>
             called.result.items = FragmentsFor(called.adgName))
  /\ [][\A n \in AllNames :
         (called'.op = "addSampleFileToInstrument" /\ called'.adgName # n)
           => AdgsGet(adgs', n) = AdgsGet(adgs, n)]_vars

TwoListsInCallOrder ==
  /\ called.op = "createBaseXml"
  /\ called.adgName = TestAdg
  /\ Len(called.result.items) = 2
  /\ called.result.items[1].note_value = 104
  /\ called.result.items[2].note_value = 102
  /\ Len(AdgsGet(adgs, OtherAdg)) = 1

(***************************************************************************)
(* C30: createBaseXml called for a name that has no accumulated samples    *)
(* returns a container document with zero instrument fragments, raises no  *)
(* error, and leaves the accumulated map unchanged: the unknown name is    *)
(* not created.                                                            *)
(***************************************************************************)
UnknownNameRendersEmpty ==
  /\ []((called.op = "createBaseXml" /\ CallsFor(called.adgName) = <<>>) =>
          /\ called.result = [items |-> <<>>]
          /\ ~AdgsHas(adgs, called.adgName))
  /\ [][called'.op = "createBaseXml" => adgs' = adgs]_vars

UnknownNameAmongOthers ==
  /\ called.op = "createBaseXml"
  /\ called.adgName = NonExistent
  /\ Len(adgs) = 2
  /\ called.result.items = <<>>

(***************************************************************************)
(* Direct calls of createAdg, as its tests make them: a rendered container *)
(* document is written into the emptied output directory.                  *)
(***************************************************************************)
\* the sample lists whose rendering is handed to createAdg: a plain name and
\* one with characters of two and of three UTF-8 bytes
ArtifactFiles ==
  {PathJoin(FlatPath, <<"a", ".", "w", "a", "v">>),
   PathJoin(FlatPath, <<"U+20AC", "U+00FC", ".", "w", "a", "v">>)}
SampleLists == UNION {[1..k -> ArtifactFiles] : k \in 0..MaxItems}

\* the fragments of a list of samples added from slot 104 downwards
FragmentsOf(files) ==
  [k \in 1..Len(files) |->
     CreateInstrumentXml(files[k], NoteValue(k - 1), fileType)]

\* await adgMaker.createAdg(adgName, xml, TEST_OUTPUT_PATH) with the string
\* createBaseXml returns for the samples of files: the three stages in turn,
\* any of which may fail; one call on the output directory as the clean-up
\* left it
CallCreateAdg(n, files) ==
  /\ outFiles = {}
  /\ called.op # "createAdg"
  /\ LET items == FragmentsOf(files)
         document == RenderBaseXml([items |-> items])
         xmlName == XmlFile(OutputDir, n)
         adgFile == AdgFile(OutputDir, n)
         afterWrite == WriteOut(outFiles, xmlName, Utf8Encode(document), TRUE)
         afterGzip == WriteOut(afterWrite, adgFile,
                               Gzip(ReadOut(afterWrite, xmlName)), TRUE)
         partial == WriteOut(afterWrite, adgFile,
                             Gzip(ReadOut(afterWrite, xmlName)), FALSE)
         settled(status, value) ==
           [op |-> "createAdg", adgName |-> n, xml |-> document,
            items |-> Len(items),
            result |-> [status |-> status, value |-> value]]
     IN  \/ /\ outFiles' = IF debug THEN afterGzip
                            ELSE RemoveOut(afterGzip, xmlName)
            /\ called' = settled("resolved", adgFile)
            /\ UNCHANGED faults
         \/ /\ faults < MaxFaults
            /\ faults' = faults + 1
            /\ \/ /\ outFiles' = outFiles
                  /\ called' = settled("rejected", "EIO")
               \/ /\ outFiles' = partial
                  /\ called' = settled("rejected", "ENOSPC")
               \/ /\ outFiles' = partial
                  /\ called' = settled("pending", "none")
               \/ /\ ~debug
                  /\ outFiles' = afterGzip
                  /\ called' = settled("rejected", "EPERM")
  /\ UNCHANGED <<adgs, calls, ipcVars, written, fileType, debug, cancelled,
                 optionVars, pc, mode, atYield, multiVars, folderVars,
                 groupVars, flushVars, err, templates, events, histVars>>

\* afterAll, once the call has settled or stalled: every file of the output
\* directory is unlinked
CleanOutput ==
  /\ called.op = "createAdg"
  /\ outFiles' = {}
  /\ called' = [op |-> "afterAll"]
  /\ UNCHANGED <<adgs, calls, ipcVars, written, fileType, debug, cancelled,
                 optionVars, pc, mode, atYield, multiVars, folderVars,
                 groupVars, flushVars, err, templates, faults, events,
                 histVars>>

\* a fresh ADGMaker of either file type, in debug mode or not
ArtifactInit ==
  /\ Init
  /\ ~includeLoops
  /\ folders = <<KitPath>>
  /\ DOMAIN customNames = {}
  /\ templates = "ok"

ArtifactNext ==
  \/ \E n \in TestNames, files \in SampleLists : CallCreateAdg(n, files)
  \/ CleanOutput

ArtifactSpec == ArtifactInit /\ [][ArtifactNext]_vars

(***************************************************************************)
(* C32: gzip-decompressing the artifact that a successful createAdg has    *)
(* written and reading it as UTF-8 yields exactly the document string that *)
(* was passed in; it holds the XML declaration and as many instrument      *)
(* fragments as were accumulated for the container.                        *)
(***************************************************************************)
\* number of places where sub occurs in s
Occurrences(s, sub) ==
  Cardinality({k \in 1..(Len(s) - Len(sub) + 1) :
                 SubSeq(s, k, k + Len(sub) - 1) = sub})

\* zlib.gunzipSync(fs.readFileSync(adgPath)).toString('utf-8')
Decompressed(adgPath) == Utf8Decode(Gunzip(ReadOut(outFiles, adgPath)))

RECURSIVE StringsUpTo(_, _)
StringsUpTo(chars, n) ==
  IF n = 0 THEN {<<>>}
  ELSE LET shorter == StringsUpTo(chars, n - 1)
       IN  shorter \cup {Append(t, c) : t \in shorter, c \in chars}

\* strings handed to encodeUtf16Hex: short ones with a separator, a
\* character beyond U+00FF and one beyond U+007F, and the test's 'test'
TestStrings ==
  StringsUpTo({"t", "/", "U+20AC", "U+00FC"}, MaxLen)
    \cup {<<"t", "e", "s", "t">>}

\* directory names and the file name of the paths handed to createPathHint
TestSegments ==
  {<<"a">>, <<"M", "y", " ", "M", "u", "s", "i", "c">>,
   <<"m", "U+00FC", "s", "i", "c">>}

TestFileName == <<"f", ".", "w", "a", "v">>

\* the files findSampleFiles returns for the folders of the model under any
\* of three extensions, a file directly under the root, and names that
\* hold the extension elsewhere than at the end
ScannedFiles ==
  UNION {{FindSampleFiles(d, ft)[k] : k \in 1..Len(FindSampleFiles(d, ft))} :
           d \in {KitPath, FlatPath, VoidPath, AltFlatPath},
           ft \in {Wav, Mp3, <<"t", "x", "t">>}}

OddFiles ==
  {PathJoin(RootPath, TestFileName),
   PathJoin(VoidPath, <<"w", "a", "v">>),
   PathJoin(VoidPath, <<".", "w", "a", "v">>),
   PathJoin(VoidPath, <<"a", ".", "w", "a", "v", ".", "m", "p", "3", "x">>)}

\* directories handed to getSubdirsContainingValidSamples
TestDirs == {RootPath, KitPath, FlatPath, VoidPath, BrokenPath, AltFlatPath}

\* adgMaker.encodeUtf16Hex(filePath)
CallEncodeUtf16Hex ==
  /\ \E t \in TestStrings :
       called' = [op |-> "encodeUtf16Hex", filePath |-> t,
                  result |-> EncodeUtf16Hex(t)]
  /\ UNCHANGED <<adgs, calls, callFrame>>

\* adgMaker.createPathHint(filePath) on the path of a file under the given
\* directories
CallCreatePathHint ==
  /\ \E n \in 0..MaxDepth :
       \E dirs \in [1..n -> TestSegments] :
         called' = [op |-> "createPathHint", dirs |-> dirs,
                    result |-> CreatePathHint(
                      PathString(RootPath \o dirs \o <<TestFileName>>))]
  /\ UNCHANGED <<adgs, calls, callFrame>>

\* adgMaker.createInstrumentXml(filePath, noteValue)
CallCreateInstrumentXml ==
  /\ \E f \in ScannedFiles \cup OddFiles :
       called' = [op |-> "createInstrumentXml", filePath |-> f,
                  result |-> CreateInstrumentXml(f, NoteValue(0), fileType)]
  /\ UNCHANGED <<adgs, calls, callFrame>>

\* await processor.getSubdirsContainingValidSamples(dirPath, includeLoops)
CallGetSubdirs ==
  /\ \E d \in TestDirs, loops \in BOOLEAN :
       /\ CanReaddir(d)
       /\ called' = [op |-> "getSubdirsContainingValidSamples",
                     dirPath |-> d, includeLoops |-> loops,
                     result |-> GetSubdirs(d, loops)]
  /\ UNCHANGED <<adgs, calls, callFrame>>

CodecNext ==
  \/ CallEncodeUtf16Hex
  \/ CallCreatePathHint
  \/ CallCreateInstrumentXml
  \/ CallGetSubdirs

CodecSpec == MakerInit /\ [][CodecNext]_vars

(***************************************************************************)
(* Vocabulary of the properties on the stateless functions.                *)
(***************************************************************************)
UpperHexDigits ==
  <<"0", "1", "2", "3", "4", "5", "6", "7", "8", "9",
    "A", "B", "C", "D", "E", "F">>

IsUpperHexDigit(d) == \E k \in 1..16 : UpperHexDigits[k] = d

\* the value of an upper-case hexadecimal digit
HexValue(d) == (CHOOSE k \in 1..16 : UpperHexDigits[k] = d) - 1

\* the byte two hexadecimal digits of a text spell, from position k
ByteAt(text, k) == 16 * HexValue(text[k]) + HexValue(text[k + 1])

(***************************************************************************)
(* C26: for every path string p, encodeUtf16Hex(p) is the uppercase hex of *)
(* the byte-order mark followed by p in UTF-16LE: it starts with 'FFFE',   *)
(* contains only the characters 0-9 and A-F, has even length (four digits  *)
(* for the mark and four per code unit, low byte first), is the same on    *)
(* every call for the same input, and 'test' encodes to exactly            *)
(* 'FFFE7400650073007400'.                                                 *)
(***************************************************************************)
EncodesBomAndUtf16leInUpperHex ==
  /\ [](called.op = "encodeUtf16Hex" =>
          LET p == called.filePath
              r == called.result
          IN  /\ Len(r) = 4 + 4 * Len(p)
              /\ Len(r) % 2 = 0
              /\ \A k \in 1..Len(r) : IsUpperHexDigit(r[k])
              /\ SubSeq(r, 1, 4) = <<"F", "F", "F", "E">>
              /\ \A k \in 1..Len(p) :
                   /\ ByteAt(r, 4 * k + 1) = CodeUnit(p[k]) % 256
                   /\ ByteAt(r, 4 * k + 3) = CodeUnit(p[k]) \div 256
              /\ p = <<"t", "e", "s", "t">> =>
                   r = <<"F", "F", "F", "E", "7", "4", "0", "0", "6", "5", "0", "0",
                        "7", "3", "0", "0", "7", "4", "0", "0">>)
  /\ [][(/\ called.op = "encodeUtf16Hex"
          /\ called'.op = "encodeUtf16Hex"
          /\ called'.filePath = called.filePath)
           => called'.result = called.result]_vars

TestEncoded ==
  /\ called.op = "encodeUtf16Hex"
  /\ called.filePath = <<"t", "e", "s", "t">>
  /\ Len(called.result) = 20

(***************************************************************************)
(* C27: for every path with n intermediate directory segments between the  *)
(* root and the filename, createPathHint yields exactly n                  *)
(* RelativePathElement fragments, one per segment in path order with the   *)
(* segment text verbatim, never one for the root or the filename, and      *)
(* yields the empty result when n = 0.                                     *)
(***************************************************************************)
\* the number of RelativePathElement fragments in a text
NumHintEls(text) ==
  Cardinality({k \in 1..Len(text) :
                 /\ k + Len(HintOpen) - 1 <= Len(text)
                 /\ SubSeq(text, k, k + Len(HintOpen) - 1) = HintOpen})

\* one fragment per directory name, in order, a line each
RECURSIVE HintsOf(_)
HintsOf(dirs) ==
  IF dirs = <<>> THEN <<>>
  ELSE LET el == HintOpen \o Head(dirs) \o HintClose
       IN  IF Len(dirs) = 1 THEN el
           ELSE el \o <<"\n">> \o HintsOf(Tail(dirs))

OneHintPerDirectorySegment ==
  called.op = "createPathHint" =>
    /\ NumHintEls(called.result) = Len(called.dirs)
    /\ called.result = HintsOf(called.dirs)
    /\ ~Includes(called.result, TestFileName)
    /\ ~Includes(called.result, HintOpen \o HintClose)
    /\ Len(called.dirs) = 0 => called.result = <<>>

TwoSegmentsHinted ==
  /\ called.op = "createPathHint"
  /\ Len(called.dirs) = 2
  /\ called.dirs[1] = <<"M", "y", " ", "M", "u", "s", "i", "c">>
  /\ called.dirs[2] = <<"m", "U+00FC", "s", "i", "c">>
  /\ NumHintEls(called.result) = 2

(***************************************************************************)
(* C23: for a folder with k immediate subdirectories of which m have a     *)
(* name containing the substring 'loop' in any letter case,                *)
(* getSubdirsContainingValidSamples returns exactly the k - m others when  *)
(* includeLoops is false and all k when it is true, in directory order;    *)
(* non-directory entries are never returned.                               *)
(***************************************************************************)
\* the name holds l, o, o, p in a row, each in either case
HasLoopAnyCase(entryName) ==
  \E k \in 1..(Len(entryName) - 3) :
    /\ entryName[k] \in {"l", "L"}
    /\ entryName[k + 1] \in {"o", "O"}
    /\ entryName[k + 2] \in {"o", "O"}
    /\ entryName[k + 3] \in {"p", "P"}

LoopFoldersFiltered ==
  called.op = "getSubdirsContainingValidSamples" =>
    LET entries == Readdir(called.dirPath)
        dirs == {j \in 1..Len(entries) : entries[j].kind = "dir"}
        loops == {j \in dirs : HasLoopAnyCase(entries[j].name)}
        others == IF called.includeLoops THEN dirs ELSE dirs \ loops
        r == called.result
    IN  /\ Len(r) = Cardinality(others)
        /\ Cardinality(others)
             = Cardinality(dirs)
                 - (IF called.includeLoops THEN 0 ELSE Cardinality(loops))
        /\ \A j \in others :
             \E h \in 1..Len(r) : r[h] = Append(called.dirPath, entries[j].name)
        /\ \A h \in 1..Len(r) :
             \E j \in others :
               /\ r[h] = Append(called.dirPath, entries[j].name)
               /\ \A g \in 1..(h - 1) :
                    \E f \in 1..(j - 1) :
                      r[g] = Append(called.dirPath, entries[f].name)
        /\ \A h \in 1..Len(r) : Lookup(r[h]).kind = "dir"

ThreeOfFourSubdirsKept ==
  /\ called.op = "getSubdirsContainingValidSamples"
  /\ called.dirPath = KitPath
  /\ ~called.includeLoops
  /\ Len(Readdir(KitPath)) = 5
  /\ Len(called.result) = 3

(***************************************************************************)
(* C28: for every sample path the scanner can return (a file whose name    *)
(* ends in the configured extension in any letter case, directly under the *)
(* root included), the virtual path of the fragment is 'userfolder:' +     *)
(* everything before the final separator + separator + '#' + the file's    *)
(* own name with its extension as written.                                 *)
(***************************************************************************)
\* the position of the final separator of an absolute path string
LastSeparator(s) ==
  CHOOSE k \in 1..Len(s) :
    s[k] = Sep[1] /\ \A j \in (k + 1)..Len(s) : s[j] # Sep[1]

UserFolderScheme == <<"u", "s", "e", "r", "f", "o", "l", "d", "e", "r", ":">>

VirtualPathNamesTheFile ==
  (/\ called.op = "createInstrumentXml"
   /\ EndsWith(ToLowerCase(Basename(called.filePath)), Dot \o fileType)) =>
    LET s == PathString(called.filePath)
        k == LastSeparator(s)
    IN  AbletonPath(called.result.ableton_path)
          = UserFolderScheme \o SubSeq(s, 1, k - 1) \o Sep \o <<"#">>
              \o SubSeq(s, k + 1, Len(s))

(***************************************************************************)
(* C29: the display name of a sample is its base filename with exactly the *)
(* configured extension removed from the end under case-insensitive        *)
(* matching; a base filename that does not end in that extension is the    *)
(* display name unchanged; createInstrumentXml returns in both cases.      *)
(***************************************************************************)
\* the code unit of a character with the ASCII capitals folded to small
FoldCase(c) ==
  IF CodeUnit(c) \in 65..90 THEN CodeUnit(c) + 32 ELSE CodeUnit(c)

DisplayNameStripsExtension ==
  called.op = "createInstrumentXml" =>
    LET s == PathString(called.filePath)
        base == SubSeq(s, LastSeparator(s) + 1, Len(s))
        ext == Dot \o fileType
        n == Len(base)
        e == Len(ext)
        matches ==
          /\ n >= e
          /\ \A k \in 1..e : FoldCase(base[n - e + k]) = FoldCase(ext[k])
    IN  /\ "name" \in DOMAIN called.result
        /\ called.result.name = IF matches THEN SubSeq(base, 1, n - e) ELSE base

MixedCaseExtensionStripped ==
  /\ called.op = "createInstrumentXml"
  /\ fileType = Wav
  /\ Basename(called.filePath) = <<"b", ".", "W", "a", "v">>
  /\ called.result.name = <<"b">>

(***************************************************************************)
(* C31: when createAdg has succeeded, <name>.adg exists in the output      *)
(* directory and <name>.xml exists there exactly in debug mode; a          *)
(* non-debug run removes the intermediate file only after the compression  *)
(* of that container has finished.                                         *)
(***************************************************************************)
FileAt(p) == \E f \in outFiles : f.path = p

IsXmlPath(p) == EndsWith(Basename(p), <<".", "x", "m", "l">>)

\* createAdg has resolved and the flush loop is about to count it
CreateAdgSucceeded == pc = "created"

IntermediateKeptOnlyInDebug ==
  /\ [](CreateAdgSucceeded =>
          /\ FileAt(AdgFile(OutputDir, FlushName))
          /\ FileAt(XmlFile(OutputDir, FlushName)) <=> debug)
  /\ [][\A f \in outFiles :
          (IsXmlPath(f.path) /\ \A g \in outFiles' : g.path # f.path) =>
            /\ ~debug
            /\ pc = "unlink"
            /\ f.path = XmlFile(OutputDir, FlushName)
            /\ \E a \in outFiles :
                 a.path = AdgFile(OutputDir, FlushName) /\ a.whole]_vars

ArtifactWithoutIntermediate ==
  /\ CreateAdgSucceeded
  /\ ~debug
  /\ FileAt(AdgFile(OutputDir, FlushName))
  /\ ~FileAt(XmlFile(OutputDir, FlushName))

(***************************************************************************)
(* C36: with includeLoops false, no sample file that lies under an         *)
(* immediate subdirectory whose name contains 'loop' in any letter case is *)
(* ever added to a container of the folder, whatever else the folder       *)
(* holds.                                                                  *)
(***************************************************************************)
\* the immediate subdirectories of a folder that are loop folders
LoopSubdirsOf(p) ==
  {Append(p, Readdir(p)[k].name) :
     k \in {j \in 1..Len(Readdir(p)) :
              /\ Readdir(p)[j].kind = "dir"
              /\ HasLoopAnyCase(Readdir(p)[j].name)}}

NoSampleOfLoopFolderAdded ==
  (MapOfCurrentFolder /\ ~includeLoops) =>
    \A c \in 1..Len(adgs) :
      \A k \in 1..Len(adgs[c].items) :
        \A d \in LoopSubdirsOf(samplesPath) :
          ~IsUnder(adgs[c].items[k].ableton_path.dir, d)

(***************************************************************************)
(* C37: when a folder run ends with an exception, no container of that     *)
(* folder has been written and no created event has been emitted for it,   *)
(* also for groups whose samples had been assigned already: an exception   *)
(* escapes only before the flush phase begins.                             *)
(***************************************************************************)
\* createAdgFromSamplesPath has rejected, its caller has not yet resumed
FolderRunThrew == pc = "folderThrow"

ExceptionEscapesBeforeFlush ==
  /\ [](FolderRunThrew =>
          /\ attempts = <<>>
          /\ NumCreated(FolderLog) = 0
          /\ \A k \in 1..Len(written) : written[k].run # Len(logMark))
  /\ [][(FolderRunThrew' /\ ~FolderRunThrew) => ~Flushing]_vars

AssignedGroupNeverWritten ==
  /\ FolderRunThrew
  /\ samplesPath = BrokenPath
  /\ Len(adgs) = 1
  /\ Len(adgs[1].items) = 1
  /\ \A f \in outFiles : f.path # AdgFile(OutputDir, adgs[1].name)

(***************************************************************************)
(* C38: once the cancellation flag has been observed set at a per-sample   *)
(* checkpoint, the folder run emits no further progress, created or error  *)
(* event before it returns.                                                *)
(***************************************************************************)
\* processSamplesForAdg left its loop at the checkpoint, before the end of
\* the samples of the group at hand
GroupCutShort ==
  /\ pc \in {"samplesDone", "subdirProgress"}
  /\ i < Len(limited)
  /\ Len(subdirs) > 0 => limited = Retained(subdirs[subIdx])

\* from there until createAdgFromSamplesPath returns, the flag staying set
StoppedAtSampleCheckpoint ==
  \/ GroupCutShort
  \/ /\ pc \in {"subdirLoop", "flushLoop"}
     /\ cancelled
     /\ i < Len(limited)

NoEventAfterSampleCheckpoint ==
  [][StoppedAtSampleCheckpoint => events' = events]_vars

(***************************************************************************)
(* C39: for a finite folder list and finite directory trees in which every *)
(* filesystem operation eventually completes or fails,                     *)
(* processMultipleFolders always terminates and returns a count, whether   *)
(* or not cancel() is called at any point (the generate handler awaits     *)
(* nothing else before it sends complete and clears the processor          *)
(* reference): a run never halts before it has returned.                   *)
(***************************************************************************)
\* no continuation of the run is ready or will become ready: the run has
\* returned, or it awaits a promise that nothing settles
RunHalted == mode = "multi" /\ RunAtRest

ProcessMultipleFoldersReturns ==
  RunHalted =>
    /\ pc = "done"
    /\ result.status = "resolved"
    /\ result.value = SumCounts(returned)

(***************************************************************************)
(* The renderer (App.tsx) and the IPC handlers of the main process. Every  *)
(* generate request gets a processor of its own; its processMultipleFolders*)
(* run is followed here from await to await: per folder the scan (listing  *)
(* and findSampleFiles) and the write of its container. For the properties *)
(* a run keeps what it has sent to the renderer: the number of created     *)
(* events, the complete events, and whether it sent a progress, created or *)
(* error event after a complete event.                                     *)
(***************************************************************************)
\* the output directory the renderer holds at its k-th request
OutputDirectoryOf(k) == <<"out", k>>

\* window.electronAPI.generate(options): ipcRenderer.send(GENERATE, options)
GenerateMsg(n, dir) ==
  [channel |-> "adg:generate", folders |-> n, outputDirectory |-> dir]

\* window.electronAPI.cancelGeneration(): ipcRenderer.send(CANCEL)
CancelMsg == [channel |-> "adg:cancel"]

\* handleGenerate: the Generate button is shown while !isGenerating
HandleGenerate ==
  /\ ~isGenerating
  /\ requested < MaxRuns
  /\ isGenerating' = TRUE
  /\ requested' = requested + 1
  /\ \E n \in 1..MaxFolders :
       toMain' = Append(toMain, GenerateMsg(n, OutputDirectoryOf(requested')))
  /\ UNCHANGED <<processor, runs, undelivered, coreVars, unitVars>>

\* handleCancel: the Cancel button is shown while isGenerating
HandleCancel ==
  /\ isGenerating
  /\ toMain' = Append(toMain, CancelMsg)
  /\ isGenerating' = FALSE
  /\ UNCHANGED <<requested, processor, runs, undelivered, coreVars, unitVars>>

\* the onAdgComplete listener: setIsGenerating(false)
OnAdgComplete ==
  /\ undelivered > 0
  /\ undelivered' = undelivered - 1
  /\ isGenerating' = FALSE
  /\ UNCHANGED <<requested, toMain, processor, runs, coreVars, unitVars>>

\* no run has resolved with its handler still to be resumed (the handler's
\* continuation is a microtask: it runs before any other event)
NoMicrotask == \A r \in 1..Len(runs) : runs[r].state # "returned"

\* head of `for (const folder of options.folders)`: break when cancelled,
\* else createAdgFromSamplesPath up to its first await (it clears the flag)
LoopHead(run) ==
  IF run.folderIdx > run.folders \/ run.cancelled
    THEN [run EXCEPT !.state = "returned"]
  ELSE [run EXCEPT !.state = "scan", !.cancelled = FALSE]

\* processor = new SamplePackProcessor(...); processMultipleFolders(options)
NewRun(msg) ==
  LoopHead([state |-> "scan", cancelled |-> FALSE, folderIdx |-> 1,
            folders |-> msg.folders, totalCreated |-> 0,
            outputDirectory |-> msg.outputDirectory,
            created |-> 0, completes |-> <<>>, late |-> FALSE])

\* ipcMain.on(GENERATE), up to the first await of the run
OnGenerate ==
  /\ NoMicrotask
  /\ toMain # <<>>
  /\ Head(toMain).channel = "adg:generate"
  /\ toMain' = Tail(toMain)
  /\ runs' = Append(runs, NewRun(Head(toMain)))
  /\ processor' = Len(runs) + 1
  /\ UNCHANGED <<isGenerating, requested, undelivered, coreVars, unitVars>>

\* ipcMain.on(CANCEL): if (processor) processor.cancel()
OnCancel ==
  /\ NoMicrotask
  /\ toMain # <<>>
  /\ Head(toMain).channel = "adg:cancel"
  /\ toMain' = Tail(toMain)
  /\ runs' = IF processor # 0
               THEN [runs EXCEPT ![processor].cancelled = TRUE]
             ELSE runs
  /\ UNCHANGED <<isGenerating, requested, processor, undelivered, coreVars, unitVars>>

\* onProgress / onCreated / onError: mainWindowRef?.webContents.send
Send(run, ch) ==
  [run EXCEPT !.created = IF ch = "adg:created" THEN @ + 1 ELSE @,
              !.late = @ \/ run.completes # <<>>]

\* the scan of the current folder of run r settles: it throws or finds no
\* sample (error event, next folder), or the samples are assigned unless
\* the run is cancelled, and the write of the container begins
FolderScanned(r) ==
  /\ NoMicrotask
  /\ runs[r].state = "scan"
  /\ \/ runs' = [runs EXCEPT
                    ![r] = LoopHead([Send(@, "adg:error") EXCEPT
                                       !.folderIdx = @ + 1])]
     \/ /\ runs[r].cancelled
        /\ runs' = [runs EXCEPT
                      ![r] = LoopHead([@ EXCEPT !.folderIdx = @ + 1])]
     \/ /\ ~runs[r].cancelled
        /\ runs' = [runs EXCEPT
                      ![r] = [Send(@, "adg:progress") EXCEPT
                                !.state = "write"]]
  /\ UNCHANGED <<isGenerating, requested, toMain, processor, undelivered,
                 coreVars, unitVars>>

\* createAdg of the container of the current folder of run r: it resolves
\* (created event and count) or rejects (error event), then the next folder;
\* or a read or gzip stream error leaves its promise pending for good
ContainerWritten(r) ==
  /\ NoMicrotask
  /\ runs[r].state = "write"
  /\ \/ runs' = [runs EXCEPT
                    ![r] = LoopHead([Send(@, "adg:created") EXCEPT
                                       !.folderIdx = @ + 1,
                                       !.totalCreated = @ + 1])]
     \/ runs' = [runs EXCEPT
                    ![r] = LoopHead([Send(@, "adg:error") EXCEPT
                                       !.folderIdx = @ + 1])]
     \/ runs' = [runs EXCEPT ![r].state = "stuck"]
  /\ UNCHANGED <<isGenerating, requested, toMain, processor, undelivered,
                 coreVars, unitVars>>

\* {count: totalCreated, outputDirectory: options.outputDirectory}
CompleteEvent(run) ==
  [count |-> run.totalCreated, outputDirectory |-> run.outputDirectory]

\* the handler resumes after `await processMultipleFolders`: the complete
\* event, and finally processor = null
HandlerResume(r) ==
  /\ runs[r].state = "returned"
  /\ runs' = [runs EXCEPT
                ![r].state = "completed",
                ![r].completes = Append(@, CompleteEvent(runs[r]))]
  /\ undelivered' = undelivered + 1
  /\ processor' = 0
  /\ UNCHANGED <<isGenerating, requested, toMain, coreVars, unitVars>>

\* the processor of the core model at rest, with the default options
IpcInit ==
  /\ Init
  /\ fileType = Wav
  /\ ~debug
  /\ ~includeLoops
  /\ folders = <<KitPath>>
  /\ DOMAIN customNames = {}
  /\ templates = "ok"

IpcNext ==
  \/ HandleGenerate
  \/ HandleCancel
  \/ OnAdgComplete
  \/ OnGenerate
  \/ OnCancel
  \/ \E r \in 1..Len(runs) : FolderScanned(r)
  \/ \E r \in 1..Len(runs) : ContainerWritten(r)
  \/ \E r \in 1..Len(runs) : HandlerResume(r)

IpcSpec == IpcInit /\ [][IpcNext]_vars

(***************************************************************************)
(* Vocabulary of the properties on generate requests.                      *)
(***************************************************************************)
\* processMultipleFolders of run r has not returned
InFlight(r) == runs[r].state \in {"scan", "write", "stuck"}

\* nothing of request r is pending any more: its handler has finished, or
\* its run waits on a promise that never settles
RequestAtRest(r) == runs[r].state \in {"completed", "stuck"}

(***************************************************************************)
(* C18: for each generate request handled by the main process exactly one  *)
(* complete event is sent: once nothing of the request is pending any      *)
(* more, one complete event of its run has been sent.                      *)
(***************************************************************************)
ExactlyOneCompletePerRequest ==
  \A r \in 1..Len(runs) : RequestAtRest(r) => Len(runs[r].completes) = 1

(***************************************************************************)
(* What holds of the complete event in every run: never more than one per  *)
(* request, none before processMultipleFolders has returned and exactly    *)
(* one once the handler has resumed after the return, whether the run      *)
(* finished or was cancelled; it carries the aggregated count (the number  *)
(* of created events of the run) and the output directory of the request,  *)
(* and no progress, created or error event of that run is sent after it.   *)
(***************************************************************************)
OneCompleteAfterReturn ==
  \A r \in 1..Len(runs) :
    /\ Len(runs[r].completes) = (IF runs[r].state = "completed" THEN 1 ELSE 0)
    /\ \A j \in 1..Len(runs[r].completes) :
         /\ runs[r].completes[j].count = runs[r].totalCreated
         /\ runs[r].completes[j].count = runs[r].created
         /\ runs[r].completes[j].outputDirectory = OutputDirectoryOf(r)
    /\ ~runs[r].late

(***************************************************************************)
(* C19: at most one generation run is in flight at any time: a generate    *)
(* request is never started while an earlier processMultipleFolders call   *)
(* has not returned, also after Cancel has been pressed.                   *)
(***************************************************************************)
AtMostOneRunInFlight ==
  Cardinality({r \in 1..Len(runs) : InFlight(r)}) <= 1

(***************************************************************************)
(* C35: whenever a run is in flight the module-level processor refers to a *)
(* processor whose run is in flight, and a cancel request that the main    *)
(* process handles while a run is in flight sets the cancellation flag of  *)
(* a run in flight, in every interleaving of generate, cancel and the      *)
(* completion of runs.                                                     *)
(***************************************************************************)
SomeRunInFlight == \E r \in 1..Len(runs) : InFlight(r)

\* the main process takes a cancel message off the channel
CancelHandled ==
  /\ toMain # <<>>
  /\ Head(toMain).channel = "adg:cancel"
  /\ toMain' = Tail(toMain)

CancelReachesRunInFlight ==
  /\ [](SomeRunInFlight => (processor # 0 /\ InFlight(processor)))
  /\ [][(CancelHandled /\ SomeRunInFlight) =>
          \E r \in 1..Len(runs) : InFlight(r) /\ runs'[r].cancelled]_vars

====
